---- MODULE Spec2Model ----
(***************************************************************************)
(* Model of the recipe view of the youtube-to-list frontend                *)
(* (frontend/src/components/RecipeDetail.tsx): the unit converter, the     *)
(* duration formatter, the servings parser and the portion state of the    *)
(* RecipeDetail component.                                                 *)
(*                                                                         *)
(* Numbers.  A JavaScript number is modelled as an exact non-negative      *)
(* rational [kind |-> "number", num, den] in lowest terms, or as NaN or    *)
(* Infinity.  The binary rounding error of a double shows in one place     *)
(* only: where the exact values put a rounding or a comparison on a tie    *)
(* (1.005 rounded to two decimals, 0.26 - 0.25 compared with 0.01), the    *)
(* error of the doubles decides, differently from one value to the next    *)
(* (2.24 is shown as "2 1/4", 1.24 as "1.24").  The functions that round   *)
(* or compare take that decision as the argument tie, and the actions      *)
(* leave it open.  Strings are sequences of one-character strings,         *)
(* so that toLowerCase, the regular expressions and parseInt are computed  *)
(* character by character.  null is the record [kind |-> "null"].          *)
(***************************************************************************)
EXTENDS Integers, Sequences, FiniteSets, TLC

VARIABLES
    cvQuantity,   \* convertUnits: argument quantity
    cvUnit,       \* convertUnits: argument unit
    cvToMetric,   \* convertUnits: argument toMetric
    cvResult,     \* convertUnits: the returned {quantity, unit}, or NotCalled
    fdIsoDuration,  \* formatDurationLong: argument isoDuration
    fdResult,       \* formatDurationLong: the returned string, or NotCalled
    rdRecipe,         \* RecipeDetail: the data of useQuery, Null while there is none
    rdPortions,       \* RecipeDetail: the state portions
    rdIsMetric,       \* RecipeDetail: the state isMetric
    rdEffectPending,  \* RecipeDetail: the effect on [recipe] is due to run
    rtQuantity,   \* round trip: the imperial quantity
    rtUnit,       \* round trip: the imperial unit
    rtMetric,     \* round trip: convertUnits(rtQuantity, rtUnit, true), or NotCalled
    rtBack,       \* round trip: convertUnits of rtMetric with toMetric false, or NotCalled
    fqQuantity,   \* formatQuantityAsFraction: argument quantity
    fqResult,     \* formatQuantityAsFraction: the returned string, or NotCalled
    lsDarkMode,      \* localStorage: the item 'darkMode', Null when there is none
    prefersDark,     \* window.matchMedia('(prefers-color-scheme: dark)').matches
    darkMode,        \* App: the state darkMode
    classList,       \* document.documentElement.classList
    mobileMenuOpen,  \* App: the state mobileMenuOpen
    pathname,        \* App: location.pathname
    appPhase,        \* App: "mounting", "mounted", or "updating" (the effect on [darkMode] is due)
    ebFallback,      \* ErrorBoundary: props.fallback
    ebState,         \* ErrorBoundary: this.state
    ebRendered,      \* ErrorBoundary: what its last render returned
    rdCompletedSteps,    \* RecipeDetail: the state completedSteps
    rdIsEditingName,     \* RecipeDetail: the state isEditingName
    rdEditedName,        \* RecipeDetail: the state editedName
    rdIsSaving,          \* RecipeDetail: the state isSaving
    rdIsUploadingImage,  \* RecipeDetail: the state isUploadingImage
    rdIsFetchingImage,   \* RecipeDetail: the state isFetchingImage
    rdImageError,        \* RecipeDetail: the state imageError
    rdImageLoaded,       \* RecipeDetail: the state imageLoaded
    rdPatch,             \* the PATCH of handleSaveName in flight: its name, or Null
    rdUpload,            \* the POST of handleImageUpload in flight: TRUE or FALSE
    rdFetch,             \* the POST of handleFetchImage in flight: the recipe of its closure, or Null
    glGroceryList,  \* GroceryListView: the state groceryList, Null before it is loaded
    glLoading,      \* GroceryListView: the state loading
    glError,        \* GroceryListView: the state error
    glServer,       \* the grocery list as the server holds it
    glRequests,     \* the PATCH requests of handleToggleItem in flight, in the order of the clicks
    pgLength,       \* progress: groceryList.items.length
    pgChecked,      \* progress: the number of checked items
    pgResult,       \* progress: the percentage, or NotCalled
    deleteConfirm,  \* RecipeGallery: the state deleteConfirm, Null or the id of a recipe
    rgRecipes,      \* RecipeGallery: the ids of the query data ['recipes']
    rgServer,       \* the ids of the recipes the server holds
    rgTimers,       \* the timeouts of handleDelete still to fire, oldest first: the seconds left
    rgDeletes,      \* the requests of deleteMutation in flight: their recipe ids
    rgAlerts        \* the alerts shown so far

convertVars == <<cvQuantity, cvUnit, cvToMetric, cvResult>>
durationVars == <<fdIsoDuration, fdResult>>
detailVars == <<rdRecipe, rdPortions, rdIsMetric, rdEffectPending>>
roundTripVars == <<rtQuantity, rtUnit, rtMetric, rtBack>>
fractionVars == <<fqQuantity, fqResult>>
recipeVars == <<convertVars, durationVars, detailVars, roundTripVars, fractionVars>>
appVars == <<lsDarkMode, prefersDark, darkMode, classList, mobileMenuOpen, pathname, appPhase,
             ebFallback, ebState, ebRendered>>
editVars == <<rdCompletedSteps, rdIsEditingName, rdEditedName, rdIsSaving,
              rdIsUploadingImage, rdIsFetchingImage, rdImageError, rdImageLoaded,
              rdPatch, rdUpload, rdFetch>>
groceryVars == <<glGroceryList, glLoading, glError, glServer, glRequests>>
progressVars == <<pgLength, pgChecked, pgResult>>
listVars == <<groceryVars, progressVars>>
galleryVars == <<deleteConfirm, rgRecipes, rgServer, rgTimers, rgDeletes, rgAlerts>>
viewVars == <<appVars, editVars, listVars, galleryVars>>
vars == <<recipeVars, viewVars>>

-----------------------------------------------------------------------------
(* Values *)

Null == [kind |-> "null"]
NaN == [kind |-> "NaN"]
Infinity == [kind |-> "Infinity"]
NotCalled == [kind |-> "notCalled"]

RECURSIVE GCD(_, _)
GCD(a, b) == IF b = 0 THEN a ELSE GCD(b, a % b)

\* The number n/d, in lowest terms (d > 0).
Num(n, d) ==
    LET g == GCD(n, d)
    IN  [kind |-> "number", num |-> n \div g, den |-> d \div g]

Str(chars) == [kind |-> "string", chars |-> chars]

IsNumber(v) == v.kind = "number"
IsInteger(v) == v.kind = "number" /\ v.den = 1

\* a * b = q * m + r with 0 <= r < m, computed bit by bit so that no
\* intermediate value leaves the 32-bit integers (needs 2 * m + b < 2^31).
RECURSIVE MulDiv(_, _, _)
MulDiv(a, b, m) ==
    IF a = 0 THEN [q |-> 0, r |-> 0]
    ELSE LET h == MulDiv(a \div 2, b, m)
             t == 2 * h.r + (a % 2) * b
         IN  [q |-> 2 * h.q + t \div m, r |-> t % m]

-----------------------------------------------------------------------------
(* String.prototype.toLowerCase *)

UpperCaseLetters ==
    <<"A","B","C","D","E","F","G","H","I","J","K","L","M",
      "N","O","P","Q","R","S","T","U","V","W","X","Y","Z">>
LowerCaseLetters ==
    <<"a","b","c","d","e","f","g","h","i","j","k","l","m",
      "n","o","p","q","r","s","t","u","v","w","x","y","z">>

toLowerCaseChar(c) ==
    IF \E i \in 1..Len(UpperCaseLetters) : UpperCaseLetters[i] = c
    THEN LowerCaseLetters[CHOOSE i \in 1..Len(UpperCaseLetters) : UpperCaseLetters[i] = c]
    ELSE c

\* Mutant: the unit is compared as written.
toLowerCaseIdentity(s) == s

toLowerCase(s) == [i \in 1..Len(s) |-> toLowerCaseChar(s[i])]

-----------------------------------------------------------------------------
(* convertUnits: the unit names and the conversion factors of its switch *)

U_cup == <<"c","u","p">>
U_cups == <<"c","u","p","s">>
U_floz == <<"f","l"," ","o","z">>
U_fluidounce == <<"f","l","u","i","d"," ","o","u","n","c","e">>
U_oz == <<"o","z">>
U_ounce == <<"o","u","n","c","e">>
U_ounces == <<"o","u","n","c","e","s">>
U_lb == <<"l","b">>
U_lbs == <<"l","b","s">>
U_pound == <<"p","o","u","n","d">>
U_pounds == <<"p","o","u","n","d","s">>
U_tsp == <<"t","s","p">>
U_teaspoon == <<"t","e","a","s","p","o","o","n">>
U_tbsp == <<"t","b","s","p">>
U_tablespoon == <<"t","a","b","l","e","s","p","o","o","n">>
U_ml == <<"m","l">>
U_g == <<"g">>
U_gram == <<"g","r","a","m">>
U_grams == <<"g","r","a","m","s">>

\* A decimal literal of the source: n / d.
Dec(n, d) == [n |-> n, d |-> d]

\* Mutant: the US customary cup, 236.588 ml, the factor of the other direction.
F_cupCustomary == Dec(236588, 1000)

F_cup == Dec(240, 1)
F_floz == Dec(295735, 10000)
F_oz == Dec(2835, 100)
F_lb == Dec(453592, 1000)
F_tsp == Dec(4929, 1000)
F_tbsp == Dec(1479, 100)
F_mlPerCup == Dec(236588, 1000)

\* What a case of the switch does: multiply or divide the quantity by a
\* factor and replace the unit; NoRule when no case (or no branch) assigns.
Times(f, u) == [op |-> "times", by |-> f, unit |-> u]
Over(f, u) == [op |-> "over", by |-> f, unit |-> u]
NoRule == [op |-> "none"]

\* quantity >= t for an integer literal t
AtLeast(quantity, t) == quantity.num >= t * quantity.den

\* Mutant: oz, ounce and ounces are taken for fluid ounces.
toMetricSwitchOzAsFluid(lowerCaseUnit) ==
    CASE lowerCaseUnit \in {U_cup, U_cups} -> Times(F_cup, U_ml)
      [] lowerCaseUnit \in {U_floz, U_fluidounce, U_oz, U_ounce, U_ounces} ->
            Times(F_floz, U_ml)
      [] lowerCaseUnit \in {U_lb, U_lbs, U_pound, U_pounds} -> Times(F_lb, U_g)
      [] lowerCaseUnit \in {U_tsp, U_teaspoon} -> Times(F_tsp, U_ml)
      [] lowerCaseUnit \in {U_tbsp, U_tablespoon} -> Times(F_tbsp, U_ml)
      [] OTHER -> NoRule

\* switch (lowerCaseUnit) of the toMetric branch
toMetricSwitch(lowerCaseUnit) ==
    CASE lowerCaseUnit \in {U_cup, U_cups} -> Times(F_cup, U_ml)
      [] lowerCaseUnit \in {U_floz, U_fluidounce} -> Times(F_floz, U_ml)
      [] lowerCaseUnit \in {U_oz, U_ounce, U_ounces} -> Times(F_oz, U_g)
      [] lowerCaseUnit \in {U_lb, U_lbs, U_pound, U_pounds} -> Times(F_lb, U_g)
      [] lowerCaseUnit \in {U_tsp, U_teaspoon} -> Times(F_tsp, U_ml)
      [] lowerCaseUnit \in {U_tbsp, U_tablespoon} -> Times(F_tbsp, U_ml)
      [] OTHER -> NoRule

\* Mutant: every threshold compared with > instead of >=.
toImperialSwitchStrict(lowerCaseUnit, quantity) ==
    CASE lowerCaseUnit = U_ml ->
            IF quantity.num > 236 * quantity.den THEN Over(F_mlPerCup, U_cups)
            ELSE IF quantity.num > 14 * quantity.den THEN Over(F_tbsp, U_tbsp)
            ELSE IF quantity.num > 4 * quantity.den THEN Over(F_tsp, U_tsp)
            ELSE NoRule
      [] lowerCaseUnit \in {U_g, U_gram, U_grams} ->
            IF quantity.num > 450 * quantity.den THEN Over(F_lb, U_lbs)
            ELSE IF quantity.num > 28 * quantity.den THEN Over(F_oz, U_oz)
            ELSE NoRule
      [] OTHER -> NoRule

\* Mutant: the gram branch tests the ounce threshold before the pound threshold.
toImperialSwitchOunceFirst(lowerCaseUnit, quantity) ==
    CASE lowerCaseUnit = U_ml ->
            IF AtLeast(quantity, 236) THEN Over(F_mlPerCup, U_cups)
            ELSE IF AtLeast(quantity, 14) THEN Over(F_tbsp, U_tbsp)
            ELSE IF AtLeast(quantity, 4) THEN Over(F_tsp, U_tsp)
            ELSE NoRule
      [] lowerCaseUnit \in {U_g, U_gram, U_grams} ->
            IF AtLeast(quantity, 28) THEN Over(F_oz, U_oz)
            ELSE IF AtLeast(quantity, 450) THEN Over(F_lb, U_lbs)
            ELSE NoRule
      [] OTHER -> NoRule

\* switch (lowerCaseUnit) of the else (to imperial) branch
toImperialSwitch(lowerCaseUnit, quantity) ==
    CASE lowerCaseUnit = U_ml ->
            IF AtLeast(quantity, 236) THEN Over(F_mlPerCup, U_cups)
            ELSE IF AtLeast(quantity, 14) THEN Over(F_tbsp, U_tbsp)
            ELSE IF AtLeast(quantity, 4) THEN Over(F_tsp, U_tsp)
            ELSE NoRule
      [] lowerCaseUnit \in {U_g, U_gram, U_grams} ->
            IF AtLeast(quantity, 450) THEN Over(F_lb, U_lbs)
            ELSE IF AtLeast(quantity, 28) THEN Over(F_oz, U_oz)
            ELSE NoRule
      [] OTHER -> NoRule

\* The exact value of convertedQuantity after the switch, in hundredths:
\* 100 * convertedQuantity = q + r / m with 0 <= r < m.
applyRule(quantity, rule) ==
    LET a == CASE rule.op = "times" -> 100 * rule.by.n
               [] rule.op = "over" -> 100 * rule.by.d
               [] OTHER -> 100
        b == CASE rule.op = "times" -> rule.by.d
               [] rule.op = "over" -> rule.by.n
               [] OTHER -> 1
        g == GCD(a, b)
        m == quantity.den * (b \div g)
        h == MulDiv(quantity.num, a \div g, m)
    IN  [q |-> h.q, r |-> h.r, m |-> m]

\* convertedQuantity % 1 === 0
isWhole(exact) == exact.r = 0 /\ exact.q % 100 = 0

\* Mutant: the digits past the second decimal are cut off, not rounded.
toFixed2Truncating(exact, tie) == Num(exact.q, 100)

\* The value is halfway between two hundredths and is a binary fraction (an
\* odd number of eighths), so that the double holds it exactly.
isExactHalf(exact) == 2 * exact.r = exact.m /\ (2 * exact.q + 1) % 25 = 0

\* parseFloat(convertedQuantity.toFixed(2)): the nearest hundredth, the larger
\* one when the double is exactly halfway; when only the decimal value is
\* halfway, the double lies to one side of it and tie tells which.
toFixed2(exact, tie) ==
    LET up == \/ 2 * exact.r > exact.m
              \/ isExactHalf(exact)
              \/ 2 * exact.r = exact.m /\ tie
    IN  Num(IF up THEN exact.q + 1 ELSE exact.q, 100)

\* if (convertedQuantity % 1 !== 0) convertedQuantity = parseFloat(toFixed(2))
roundConverted(exact, tie) ==
    IF isWhole(exact) THEN Num(exact.q \div 100, 1) ELSE toFixed2(exact, tie)

\* convertUnits past its null check: lower-case the unit, run the switch of
\* the requested direction, round.
convertNonNull(quantity, unit, toMetric, tie) ==
    LET lowerCaseUnit == toLowerCase(unit.chars)
        rule == IF toMetric THEN toMetricSwitch(lowerCaseUnit)
                ELSE toImperialSwitch(lowerCaseUnit, quantity)
        convertedUnit == IF rule = NoRule THEN unit ELSE Str(rule.unit)
    IN  [quantity |-> roundConverted(applyRule(quantity, rule), tie),
         unit |-> convertedUnit]

\* Mutant: only the unit is null-checked; a null quantity is used as the
\* number it coerces to, 0.
convertUnitsNullAsZero(quantity, unit, toMetric, tie) ==
    IF unit = Null
    THEN [quantity |-> quantity, unit |-> unit]
    ELSE convertNonNull(IF quantity = Null THEN Num(0, 1) ELSE quantity, unit,
                        toMetric, tie)

\* convertUnits on NaN or Infinity: the products and quotients are the
\* quantity again, NaN passes no threshold and Infinity passes them all, and
\* parseFloat(toFixed(2)) gives the quantity back.
convertNotFinite(quantity, unit, toMetric) ==
    LET lowerCaseUnit == toLowerCase(unit.chars)
        rule == IF toMetric THEN toMetricSwitch(lowerCaseUnit)
                ELSE IF quantity = Infinity
                THEN toImperialSwitch(lowerCaseUnit, Num(450, 1))
                ELSE NoRule
    IN  [quantity |-> quantity,
         unit |-> IF rule = NoRule THEN unit ELSE Str(rule.unit)]

convertUnits(quantity, unit, toMetric, tie) ==
    IF quantity = Null \/ unit = Null
    THEN [quantity |-> quantity, unit |-> unit]
    ELSE IF IsNumber(quantity)
    THEN convertNonNull(quantity, unit, toMetric, tie)
    ELSE convertNotFinite(quantity, unit, toMetric)

-----------------------------------------------------------------------------
(* The regular expressions, parseInt and number formatting *)

Digits == <<"0","1","2","3","4","5","6","7","8","9">>

\* \d
isDigit(c) == \E i \in 1..Len(Digits) : Digits[i] = c

digitValue(c) == (CHOOSE i \in 1..Len(Digits) : Digits[i] = c) - 1

\* \d+ tried at pos: the length of the longest run of digits that starts there
RECURSIVE digitRun(_, _)
digitRun(s, pos) ==
    IF pos <= Len(s) /\ isDigit(s[pos]) THEN 1 + digitRun(s, pos + 1) ELSE 0

\* parseInt of a string of digits (the only strings it is called on)
RECURSIVE parseInt(_)
parseInt(digits) ==
    IF digits = << >> THEN 0
    ELSE 10 * parseInt(SubSeq(digits, 1, Len(digits) - 1)) + digitValue(digits[Len(digits)])

\* `${n}` for a non-negative integer n
RECURSIVE numberToString(_)
numberToString(n) ==
    IF n < 10 THEN <<Digits[n + 1]>>
    ELSE numberToString(n \div 10) \o <<Digits[(n % 10) + 1]>>

\* Mutant: the parts are put together without the separator.
RECURSIVE joinWithoutSeparator(_, _)
joinWithoutSeparator(parts, separator) ==
    IF parts = << >> THEN << >>
    ELSE parts[1] \o joinWithoutSeparator(Tail(parts), separator)

\* Array.prototype.join
RECURSIVE join(_, _)
join(parts, separator) ==
    IF parts = << >> THEN << >>
    ELSE IF Len(parts) = 1 THEN parts[1]
    ELSE parts[1] \o separator \o join(Tail(parts), separator)

\* The capture of a group that took no part in the match.
Undefined == << >>

\* (?:(\d+)X)? tried at pos: greedy digits followed by the letter, else skipped
optionalGroup(s, pos, letter) ==
    LET n == digitRun(s, pos)
    IN  IF n >= 1 /\ pos + n <= Len(s) /\ s[pos + n] = letter
        THEN [capture |-> SubSeq(s, pos, pos + n - 1), next |-> pos + n + 1]
        ELSE [capture |-> Undefined, next |-> pos]

\* isoDuration.match(/PT(?:(\d+)H)?(?:(\d+)M)?(?:(\d+)S)?/): the pattern is not
\* anchored, so the match starts at the leftmost "PT" of the string; Null
\* when the string holds no "PT".
durationMatch(s) ==
    LET starts == {i \in 1..(Len(s) - 1) : s[i] = "P" /\ s[i + 1] = "T"}
    IN  IF starts = {} THEN Null
        ELSE LET index == CHOOSE i \in starts : \A j \in starts : i <= j
                 h == optionalGroup(s, index + 2, "H")
                 m == optionalGroup(s, h.next, "M")
                 sec == optionalGroup(s, m.next, "S")
             IN  [index |-> index, last |-> sec.next - 1,
                  groups |-> <<h.capture, m.capture, sec.capture>>]

-----------------------------------------------------------------------------
(* formatDurationLong *)

S_hour == <<" ","h","o","u","r">>
S_minute == <<" ","m","i","n","u","t","e">>
\* Mutant: the text for a duration of nothing is in the singular.
S_0minute == <<"0"," ","m","i","n","u","t","e">>

S_0minutes == <<"0"," ","m","i","n","u","t","e","s">>

\* Mutant: a match without hours and minutes gives the joined parts, the
\* empty string.
formatDurationLongNoFallback(isoDuration) ==
    IF isoDuration = Null \/ isoDuration.chars = << >> THEN Str(<< >>)
    ELSE LET match == durationMatch(isoDuration.chars)
         IN  IF match = Null THEN isoDuration
             ELSE LET hours == IF match.groups[1] # Undefined
                               THEN parseInt(match.groups[1]) ELSE 0
                      minutes == IF match.groups[2] # Undefined
                                 THEN parseInt(match.groups[2]) ELSE 0
                      hourPart ==
                          IF hours > 0
                          THEN <<numberToString(hours) \o S_hour
                                   \o (IF hours > 1 THEN <<"s">> ELSE << >>)>>
                          ELSE << >>
                      minutePart ==
                          IF minutes > 0
                          THEN <<numberToString(minutes) \o S_minute
                                   \o (IF minutes > 1 THEN <<"s">> ELSE << >>)>>
                          ELSE << >>
                  IN  Str(join(hourPart \o minutePart, <<" ">>))

formatDurationLong(isoDuration) ==
    IF isoDuration = Null \/ isoDuration.chars = << >> THEN Str(<< >>)
    ELSE LET match == durationMatch(isoDuration.chars)
         IN  IF match = Null THEN isoDuration
             ELSE LET hours == IF match.groups[1] # Undefined
                               THEN parseInt(match.groups[1]) ELSE 0
                      minutes == IF match.groups[2] # Undefined
                                 THEN parseInt(match.groups[2]) ELSE 0
                      hourPart ==
                          IF hours > 0
                          THEN <<numberToString(hours) \o S_hour
                                   \o (IF hours > 1 THEN <<"s">> ELSE << >>)>>
                          ELSE << >>
                      minutePart ==
                          IF minutes > 0
                          THEN <<numberToString(minutes) \o S_minute
                                   \o (IF minutes > 1 THEN <<"s">> ELSE << >>)>>
                          ELSE << >>
                      parts == hourPart \o minutePart
                  IN  Str(IF Len(parts) > 0 THEN join(parts, <<" ">>) ELSE S_0minutes)

-----------------------------------------------------------------------------
(* RecipeDetail: parseServings, portions, scaleFactor, scaledQuantity *)

\* servings.match(/\d+/): the leftmost longest run of digits, Null without one
servingsMatch(s) ==
    LET starts == {i \in 1..Len(s) : isDigit(s[i])}
    IN  IF starts = {} THEN Null
        ELSE LET index == CHOOSE i \in starts : \A j \in starts : i <= j
             IN  Str(SubSeq(s, index, index + digitRun(s, index) - 1))

parseServings(servings) ==
    IF servings = Null \/ servings.chars = << >> THEN 4
    ELSE LET match == servingsMatch(servings.chars)
         IN  IF match # Null THEN parseInt(match.chars) ELSE 4

\* a / b for integers a, b >= 0
divide(a, b) ==
    IF b # 0 THEN Num(a, b) ELSE IF a = 0 THEN NaN ELSE Infinity

\* Mutant: the quantity is multiplied by the change of the portions,
\* f - 1, not by f.
multiplyByChange(x, f) ==
    IF IsNumber(f) THEN Num(x.num * (f.num - f.den), x.den * f.den) ELSE f

\* x * f for a number x > 0
multiply(x, f) ==
    IF IsNumber(f) THEN Num(x.num * f.num, x.den * f.den) ELSE f

\* const originalServings = recipe ? parseServings(recipe.servings) : 4
originalServings ==
    IF rdRecipe # Null THEN parseServings(rdRecipe.servings) ELSE 4

\* const scaleFactor = portions / originalServings
scaleFactor == divide(rdPortions, originalServings)

\* Mutant: the scaled quantity is cut to two decimals.
scaledQuantityTwoDecimals(item) ==
    IF item.quantity # Null /\ item.quantity.num # 0
    THEN LET v == multiply(item.quantity, scaleFactor)
         IN  IF IsNumber(v) THEN Num((100 * v.num) \div v.den, 100) ELSE v
    ELSE Null

\* const scaledQuantity = item.quantity ? item.quantity * scaleFactor : null
scaledQuantity(item) ==
    IF item.quantity # Null /\ item.quantity.num # 0
    THEN multiply(item.quantity, scaleFactor)
    ELSE Null

-----------------------------------------------------------------------------
(* formatQuantityAsFraction *)

fractionMap ==
    <<[value |-> Dec(125, 1000), display |-> <<"1","/","8">>],
      [value |-> Dec(250, 1000), display |-> <<"1","/","4">>],
      [value |-> Dec(333, 1000), display |-> <<"1","/","3">>],
      [value |-> Dec(375, 1000), display |-> <<"3","/","8">>],
      [value |-> Dec(500, 1000), display |-> <<"1","/","2">>],
      [value |-> Dec(625, 1000), display |-> <<"5","/","8">>],
      [value |-> Dec(666, 1000), display |-> <<"2","/","3">>],
      [value |-> Dec(667, 1000), display |-> <<"2","/","3">>],
      [value |-> Dec(750, 1000), display |-> <<"3","/","4">>],
      [value |-> Dec(875, 1000), display |-> <<"7","/","8">>]>>

\* a < b for numbers a = an / ad and b = bn / bd given in decimals; when the
\* decimal values are equal the doubles differ by their rounding error, and
\* tie tells which way.
lessThan(an, ad, bn, bd, tie) ==
    \/ an * bd < bn * ad
    \/ an * bd = bn * ad /\ tie

\* Math.abs(f.value - decimal) < 0.01
matches(f, decimal, tie) ==
    LET diff == f.value.n * decimal.den - decimal.num * f.value.d
        abs == IF diff >= 0 THEN diff ELSE -diff
    IN  lessThan(abs, f.value.d * decimal.den, 1, 100, tie)

\* fractionMap.find(...): the index of the first entry that matches, 0 for
\* undefined
find(decimal, tie) ==
    LET found == {i \in 1..Len(fractionMap) : matches(fractionMap[i], decimal, tie)}
    IN  IF found = {} THEN 0
        ELSE CHOOSE i \in found : \A j \in found : i <= j

\* quantity.toFixed(2): the digits of the whole part, a point, two digits
toFixedString(quantity, tie) ==
    LET rounded == toFixed2(applyRule(quantity, NoRule), tie)
        hundredths == rounded.num * (100 \div rounded.den)
    IN  numberToString(hundredths \div 100) \o <<".">>
            \o <<Digits[((hundredths \div 10) % 10) + 1], Digits[(hundredths % 10) + 1]>>

\* s.replace(/\.?0+$/, ''): the leftmost place from which an optional point
\* and then zeros, at least one, run to the end of s is where s is cut
stripTrailingZeros(s) ==
    LET zerosFrom(i) == i <= Len(s) /\ \A k \in i..Len(s) : s[k] = "0"
        starts == {i \in 1..Len(s) :
                      \/ zerosFrom(i)
                      \/ s[i] = "." /\ zerosFrom(i + 1)}
    IN  IF starts = {} THEN s
        ELSE SubSeq(s, 1, (CHOOSE i \in starts : \A j \in starts : i <= j) - 1)

\* The two decisions a call may meet: ties.compare for the comparisons,
\* ties.round for toFixed.
Ties == [compare : BOOLEAN, round : BOOLEAN]

\* Mutant: the first table entry is taken whatever the decimal part.
formatQuantityFirstEntry(quantity, ties) ==
    IF quantity = Null \/ quantity.num = 0 THEN Str(<< >>)
    ELSE LET whole == quantity.num \div quantity.den
         IN  Str(IF whole > 0
                 THEN numberToString(whole) \o <<" ">> \o fractionMap[1].display
                 ELSE fractionMap[1].display)

\* Mutant: three decimals are kept when no fraction matches.
formatQuantityThreeDecimals(quantity, ties) ==
    IF quantity = Null \/ quantity.num = 0 THEN Str(<< >>)
    ELSE LET whole == quantity.num \div quantity.den
             decimal == Num(quantity.num % quantity.den, quantity.den)
             thousandths == (1000 * decimal.num) \div decimal.den
             matchedFraction == find(decimal, ties.compare)
         IN  IF matchedFraction # 0
             THEN Str(IF whole > 0
                      THEN numberToString(whole) \o <<" ">>
                               \o fractionMap[matchedFraction].display
                      ELSE fractionMap[matchedFraction].display)
             ELSE Str(stripTrailingZeros(
                      numberToString(whole) \o <<".">>
                          \o <<Digits[(thousandths \div 100) + 1],
                               Digits[((thousandths \div 10) % 10) + 1],
                               Digits[(thousandths % 10) + 1]>>))

\* Mutant: a quantity is shown only from 0.01 up.
formatQuantityFromHundredth(quantity, ties) ==
    IF quantity = Null \/ 100 * quantity.num < quantity.den THEN Str(<< >>)
    ELSE Str(stripTrailingZeros(toFixedString(quantity, ties.round)))

S_NaN == <<"N","a","N">>
S_Infinity == <<"I","n","f","i","n","i","t","y">>

formatQuantityAsFraction(quantity, ties) ==
    IF quantity = Null THEN Str(<< >>)
    ELSE IF quantity = NaN THEN Str(S_NaN)
    ELSE IF quantity = Infinity THEN Str(S_Infinity)
    ELSE IF quantity.num = 0 THEN Str(<< >>)
    ELSE LET whole == quantity.num \div quantity.den
             decimal == Num(quantity.num % quantity.den, quantity.den)
             matchedFraction == find(decimal, ties.compare)
         IN  IF lessThan(decimal.num, decimal.den, 1, 1000, ties.compare /\ whole > 0)
             THEN Str(numberToString(whole))
             ELSE IF matchedFraction # 0
             THEN Str(IF whole > 0
                      THEN numberToString(whole) \o <<" ">>
                               \o fractionMap[matchedFraction].display
                      ELSE fractionMap[matchedFraction].display)
             ELSE IF decimal.num # 0
             THEN Str(stripTrailingZeros(toFixedString(quantity, ties.round)))
             ELSE Str(numberToString(whole))

S_toTaste == <<"t","o"," ","t","a","s","t","e">>

\* Mutant: the unit follows the quantity without a space.
quantityDisplayNoSpace(item, tie, ties) ==
    LET converted == convertUnits(scaledQuantity(item), item.unit, rdIsMetric, tie)
        quantity == converted.quantity
        unit == converted.unit
        hasQuantity == quantity # Null /\ quantity # NaN
                          /\ (quantity = Infinity \/ quantity.num > 0)
        hasUnit == unit # Null /\ unit.chars # << >>
    IN  IF hasQuantity
        THEN formatQuantityAsFraction(quantity, ties).chars
                 \o (IF hasUnit THEN unit.chars ELSE << >>)
        ELSE IF item.notes = Null \/ item.notes.chars = << >> THEN S_toTaste
        ELSE << >>

\* Mutant: the unit is shown whether or not there is a quantity.
quantityDisplayUnitAlways(item, tie, ties) ==
    LET converted == convertUnits(scaledQuantity(item), item.unit, rdIsMetric, tie)
        quantity == converted.quantity
        unit == converted.unit
        hasQuantity == quantity # Null /\ quantity # NaN
                          /\ (quantity = Infinity \/ quantity.num > 0)
        hasUnit == unit # Null /\ unit.chars # << >>
    IN  IF hasQuantity \/ hasUnit
        THEN (IF hasQuantity THEN formatQuantityAsFraction(quantity, ties).chars ELSE << >>)
                 \o (IF hasUnit THEN <<" ">> \o unit.chars ELSE << >>)
        ELSE IF item.notes = Null \/ item.notes.chars = << >> THEN S_toTaste
        ELSE << >>

\* The text shown before the name of an ingredient: the quantity is scaled,
\* converted, formatted, and followed by the unit.
quantityDisplay(item, tie, ties) ==
    LET converted == convertUnits(scaledQuantity(item), item.unit, rdIsMetric, tie)
        quantity == converted.quantity
        unit == converted.unit
        hasQuantity == quantity # Null /\ quantity # NaN
                          /\ (quantity = Infinity \/ quantity.num > 0)
        hasUnit == unit # Null /\ unit.chars # << >>
    IN  IF hasQuantity
        THEN formatQuantityAsFraction(quantity, ties).chars
                 \o (IF hasUnit THEN <<" ">> \o unit.chars ELSE << >>)
        ELSE IF item.notes = Null \/ item.notes.chars = << >> THEN S_toTaste
        ELSE << >>

-----------------------------------------------------------------------------
(* RecipeDetail: the name, the image, the completed steps *)

\* String.prototype.trim, for the spaces of a name
RECURSIVE trimStart(_)
trimStart(s) == IF s # << >> /\ Head(s) = " " THEN trimStart(Tail(s)) ELSE s

RECURSIVE trimEnd(_)
trimEnd(s) ==
    IF s # << >> /\ s[Len(s)] = " " THEN trimEnd(SubSeq(s, 1, Len(s) - 1)) ELSE s

trim(s) == trimEnd(trimStart(s))

\* toggleStep: the updater of setCompletedSteps
toggleStep(prev, stepNumber) ==
    IF stepNumber \in prev THEN prev \ {stepNumber} ELSE prev \cup {stepNumber}

\* queryClient.setQueryData(['recipe', id], data) gives useQuery a new data
\* object (the cached one is kept when data is equal to it, member by
\* member); the render that follows has a new recipe, so the effect on
\* [recipe] runs and calls setPortions(parseServings(recipe.servings)).
portionsAfterRender(data) ==
    IF data # rdRecipe THEN parseServings(data.servings) ELSE rdPortions

-----------------------------------------------------------------------------
(* App (frontend/src/App.tsx): the dark mode, the mobile menu, the location *)

S_true == <<"t","r","u","e">>
S_false == <<"f","a","l","s","e">>

\* String(darkMode)
booleanToString(value) == Str(IF value THEN S_true ELSE S_false)

\* useState(() => { ... }): window is defined in the browser.
initialDarkMode(saved, systemDark) ==
    IF saved # Null THEN saved = Str(S_true) ELSE systemDark

\* Mutant: the class is added and never removed.
effectClassListAddOnly(dark, classes) == classes \cup {"dark"}

\* The effect on [darkMode]: classList.add('dark') or classList.remove('dark')
effectClassList(dark, classes) ==
    IF dark THEN classes \cup {"dark"} ELSE classes \ {"dark"}

\* toggleDarkMode: setDarkMode(prev => !prev)
toggleDarkMode(prev) == ~prev

\* The paths of the navigation links
LinkPaths == {"/", "/grocery-lists", "/meal-plan", "/admin"}

-----------------------------------------------------------------------------
(* ErrorBoundary (frontend/src/components/ErrorBoundary.tsx) *)

Absent == [kind |-> "undefined"]

\* An Error with the given message
Error(message) == [kind |-> "error", message |-> Str(message)]

\* An element passed as props.fallback
Element(name) == [kind |-> "element", name |-> name]

\* constructor: this.state = { hasError: false }
initialState == [hasError |-> FALSE, error |-> Absent]

\* static getDerivedStateFromError(error)
getDerivedStateFromError(error) == [hasError |-> TRUE, error |-> error]

\* The truth value JavaScript gives a node or a string
truthy(value) ==
    /\ value.kind \notin {"undefined", "null"}
    /\ ~(value.kind = "string" /\ value.chars = << >>)

\* this.state.error?.message
errorMessage(error) == IF error.kind = "error" THEN error.message ELSE Absent

S_unexpected ==
    <<"A","n"," ","u","n","e","x","p","e","c","t","e","d"," ",
      "e","r","r","o","r"," ","o","c","c","u","r","r","e","d">>

\* Mutant: the children are rendered whatever the state.
renderChildrenAlways(fallback, state) == [kind |-> "children"]

\* render(): the fallback, the default message with 'Try again', or the children
render(fallback, state) ==
    IF state.hasError
    THEN IF truthy(fallback) THEN [kind |-> "fallback", node |-> fallback]
         ELSE [kind |-> "default",
               text |-> IF truthy(errorMessage(state.error))
                        THEN errorMessage(state.error).chars
                        ELSE S_unexpected]
    ELSE [kind |-> "children"]

-----------------------------------------------------------------------------
(* GroceryListView (frontend/src/components/GroceryList.tsx) *)

C_Produce == <<"P","r","o","d","u","c","e">>
C_Dairy == <<"D","a","i","r","y">>
C_Eggs == <<"E","g","g","s">>
C_MeatSeafood == <<"M","e","a","t"," ","&"," ","S","e","a","f","o","o","d">>
C_BakeryBread == <<"B","a","k","e","r","y"," ","&"," ","B","r","e","a","d">>
C_Pantry == <<"P","a","n","t","r","y">>
C_Frozen == <<"F","r","o","z","e","n">>
C_Beverages == <<"B","e","v","e","r","a","g","e","s">>
C_Other == <<"O","t","h","e","r">>

CATEGORY_ORDER ==
    <<C_Produce, C_Dairy, C_Eggs, C_MeatSeafood, C_BakeryBread, C_Pantry, C_Frozen,
      C_Beverages, C_Other>>

\* item.category || 'Other'
categoryOf(item) ==
    IF truthy(item.category) THEN item.category.chars ELSE C_Other

\* The place of a lower-case letter in the alphabet
letterRank(c) == CHOOSE i \in 1..Len(LowerCaseLetters) : LowerCaseLetters[i] = c

\* a.localeCompare(b) < 0, for names written in lower-case letters
RECURSIVE comesBefore(_, _)
comesBefore(a, b) ==
    IF b = << >> THEN FALSE
    ELSE IF a = << >> THEN TRUE
    ELSE IF Head(a) # Head(b) THEN letterRank(Head(a)) < letterRank(Head(b))
    ELSE comesBefore(Tail(a), Tail(b))

\* The comparator of the sort is negative: unchecked items first, then by name.
sortsBefore(a, b) ==
    IF a.is_checked # b.is_checked THEN ~a.is_checked
    ELSE comesBefore(a.ingredient_name.chars, b.ingredient_name.chars)

\* The item is put behind the items it does not sort before.
RECURSIVE insert(_, _)
insert(sorted, item) ==
    IF sorted = << >> THEN <<item>>
    ELSE IF sortsBefore(item, Head(sorted)) THEN <<item>> \o sorted
    ELSE <<Head(sorted)>> \o insert(Tail(sorted), item)

\* Array.prototype.sort with that comparator (a stable sort)
RECURSIVE sort(_)
sort(items) ==
    IF items = << >> THEN << >>
    ELSE insert(sort(SubSeq(items, 1, Len(items) - 1)), items[Len(items)])

\* itemsByCategory: the items of each category that occurs, sorted
itemsByCategory(groceryList) ==
    IF groceryList = Null THEN << >>
    ELSE LET keys == {categoryOf(groceryList.items[i]) : i \in 1..Len(groceryList.items)}
         IN  [category \in keys |->
                 sort(SelectSeq(groceryList.items, LAMBDA item : categoryOf(item) = category))]

\* sortedCategories: CATEGORY_ORDER.filter(cat => itemsByCategory[cat]?.length > 0)
sortedCategories(groceryList) ==
    LET grouped == itemsByCategory(groceryList)
    IN  SelectSeq(CATEGORY_ORDER,
                  LAMBDA cat : cat \in DOMAIN grouped /\ Len(grouped[cat]) > 0)

RECURSIVE flatten(_)
flatten(lists) == IF lists = << >> THEN << >> ELSE Head(lists) \o flatten(Tail(lists))

\* The items the view renders: sortedCategories.map(category =>
\* itemsByCategory[category].map(item => ...))
renderedItems(groceryList) ==
    LET grouped == itemsByCategory(groceryList)
        categories == sortedCategories(groceryList)
    IN  flatten([i \in 1..Len(categories) |-> grouped[categories[i]]])

\* setGroceryList({ ...groceryList, items: groceryList.items.map(item =>
\*     item.id === itemId ? updatedItem : item) }), with the groceryList the
\* handler was created with
withUpdatedItem(groceryList, itemId, updatedItem) ==
    [groceryList EXCEPT !.items =
        [i \in 1..Len(groceryList.items) |->
            IF groceryList.items[i].id = itemId THEN updatedItem
            ELSE groceryList.items[i]]]

\* The exact percentage lies on a half only for a quotient checked / length
\* with denominator 8, 40 or 200 in lowest terms; for these four quotients
\* the double (checked / length) * 100 lies just below the half (23 / 40
\* gives 57.49999999999999), for all others it is the half itself.
HalfBelow == {<<23, 40>>, <<29, 200>>, <<57, 200>>, <<113, 200>>}

halfFallsBelow(checked, length) ==
    \E quotient \in HalfBelow : checked * quotient[2] = length * quotient[1]

\* Math.round((checked / length) * 100): to the nearest whole number, a half
\* upwards.
roundPercent(checked, length) ==
    LET whole == (100 * checked) \div length
        rest == (100 * checked) % length
    IN  IF 2 * rest > length THEN whole + 1
        ELSE IF 2 * rest = length /\ ~halfFallsBelow(checked, length) THEN whole + 1
        ELSE whole

\* progress, for a list of the given length with the given number of
\* checked items (GroceryListView and the cards of GroceryLists)
progress(length, checked) ==
    IF length = 0 THEN Num(0, 1) ELSE Num(roundPercent(checked, length), 1)

-----------------------------------------------------------------------------
(* RecipeGallery (frontend/src/components/RecipeGallery.tsx): deleting a recipe *)

\* setTimeout(() => setDeleteConfirm(null), 3000), in seconds
TimeoutSeconds == 3

\* alert(`Moved to trash: ${recipeName}`), for the recipe with the given id
MovedToTrash(recipeId) == [kind |-> "Moved to trash", recipe |-> recipeId]

\* alert('Failed to delete recipe')
FailedToDelete == [kind |-> "Failed to delete recipe"]

\* Mutant: the first click deletes.
confirmedAlways(confirm, recipeId) == TRUE

\* deleteConfirm === recipeId
confirmed(confirm, recipeId) == confirm = Num(recipeId, 1)

\* old?.filter(r => r.id !== recipeId) ?? []
withoutRecipe(old, recipeId) == old \ {recipeId}

-----------------------------------------------------------------------------
(* The parts of the model a specification does not use stay as they are. *)

ConvertIdle ==
    cvQuantity = Null /\ cvUnit = Null /\ cvToMetric = FALSE /\ cvResult = NotCalled

DurationIdle == fdIsoDuration = Null /\ fdResult = NotCalled

DetailIdle ==
    rdRecipe = Null /\ rdPortions = 4 /\ rdIsMetric = FALSE /\ rdEffectPending = FALSE

RoundTripIdle ==
    rtQuantity = Null /\ rtUnit = Null /\ rtMetric = NotCalled /\ rtBack = NotCalled

FractionIdle == fqQuantity = Null /\ fqResult = NotCalled

RecipeIdle == ConvertIdle /\ DurationIdle /\ DetailIdle /\ RoundTripIdle /\ FractionIdle

AppIdle ==
    /\ lsDarkMode = Null /\ prefersDark = FALSE /\ darkMode = FALSE /\ classList = {}
    /\ mobileMenuOpen = FALSE /\ pathname = "/" /\ appPhase = "mounting"
    /\ ebFallback = Absent /\ ebState = initialState /\ ebRendered = NotCalled

\* The states RecipeDetail mounts with, and no request in flight
EditIdle ==
    /\ rdCompletedSteps = {} /\ rdIsEditingName = FALSE /\ rdEditedName = Str(<< >>)
    /\ rdIsSaving = FALSE /\ rdIsUploadingImage = FALSE /\ rdIsFetchingImage = FALSE
    /\ rdImageError = FALSE /\ rdImageLoaded = FALSE
    /\ rdPatch = Null /\ rdUpload = FALSE /\ rdFetch = Null

GroceryIdle ==
    /\ glGroceryList = Null /\ glLoading = TRUE /\ glError = Null
    /\ glServer = Null /\ glRequests = << >>

ProgressIdle == pgLength = 0 /\ pgChecked = 0 /\ pgResult = NotCalled

ListsIdle == GroceryIdle /\ ProgressIdle

GalleryIdle ==
    /\ deleteConfirm = Null /\ rgRecipes = {} /\ rgServer = {}
    /\ rgTimers = << >> /\ rgDeletes = << >> /\ rgAlerts = {}

ViewsIdle == AppIdle /\ EditIdle /\ ListsIdle /\ GalleryIdle

-----------------------------------------------------------------------------
(* The inputs convertUnits is checked on *)

MaxSmallWhole == 4

\* Whole parts: a small range, and both sides of every threshold of the switch.
QuantityWholes == (0..MaxSmallWhole) \cup {13, 14, 27, 28, 100, 235, 236, 300, 449, 450}

\* Fractional parts, in ten-thousandths.
QuantityFractions == {0, 1, 49, 50, 1250, 3333, 5000, 9999}

Quantities ==
    {Num(w * 10000 + f, 10000) : w \in QuantityWholes, f \in QuantityFractions}

TableUnits ==
    {U_cup, U_cups, U_floz, U_fluidounce, U_oz, U_ounce, U_ounces, U_lb, U_lbs,
     U_pound, U_pounds, U_tsp, U_teaspoon, U_tbsp, U_tablespoon,
     U_ml, U_g, U_gram, U_grams}

MixedCaseUnits ==
    {<<"C","u","p">>, <<"C","U","P","S">>, <<"F","l"," ","O","z">>, <<"O","Z">>,
     <<"L","b">>, <<"P","o","u","n","d","s">>, <<"T","S","P">>, <<"T","b","s","p">>,
     <<"M","L">>, <<"m","L">>, <<"G">>, <<"G","r","a","m","s">>}

OtherUnits ==
    {<< >>, <<"p","i","n","c","h">>, <<"k","g">>, <<"l">>,
     <<"t","e","a","s","p","o","o","n","s">>,
     <<"t","a","b","l","e","s","p","o","o","n","s">>,
     <<"c","l","o","v","e","s">>}

Units == TableUnits \cup MixedCaseUnits \cup OtherUnits

InitConvert ==
    /\ cvQuantity \in Quantities \cup {Null}
    /\ cvUnit \in {Str(u) : u \in Units} \cup {Null}
    /\ cvToMetric \in BOOLEAN
    /\ cvResult = NotCalled
    /\ DurationIdle
    /\ DetailIdle
    /\ RoundTripIdle
    /\ FractionIdle
    /\ ViewsIdle

CallConvertUnits ==
    /\ cvResult = NotCalled
    /\ \E tie \in BOOLEAN :
          cvResult' = convertUnits(cvQuantity, cvUnit, cvToMetric, tie)
    /\ UNCHANGED <<cvQuantity, cvUnit, cvToMetric, durationVars, detailVars,
                   roundTripVars, fractionVars, viewVars>>

NextConvert == CallConvertUnits

SpecConvert == InitConvert /\ [][NextConvert]_vars

-----------------------------------------------------------------------------
(* The round trip: convertUnits to metric, then convertUnits of the result  *)
(* back to imperial.                                                        *)

MaxRoundTrip == 40

RoundTripQuantities ==
    {Num(x, 1) : x \in (1..MaxRoundTrip) \cup {100, 250, 500}}

RoundTripUnits ==
    {U_cup, U_cups, U_tbsp, U_tablespoon, U_tsp, U_teaspoon,
     U_oz, U_ounce, U_ounces, U_lb, U_lbs, U_pound, U_pounds}

InitRoundTrip ==
    /\ rtQuantity \in RoundTripQuantities
    /\ rtUnit \in {Str(u) : u \in RoundTripUnits}
    /\ rtMetric = NotCalled
    /\ rtBack = NotCalled
    /\ ConvertIdle
    /\ DurationIdle
    /\ DetailIdle
    /\ FractionIdle
    /\ ViewsIdle

ConvertToMetric ==
    /\ rtMetric = NotCalled
    /\ \E tie \in BOOLEAN :
          rtMetric' = convertUnits(rtQuantity, rtUnit, TRUE, tie)
    /\ UNCHANGED <<rtQuantity, rtUnit, rtBack, convertVars, durationVars, detailVars,
                   fractionVars, viewVars>>

ConvertBack ==
    /\ rtMetric # NotCalled
    /\ rtBack = NotCalled
    /\ \E tie \in BOOLEAN :
          rtBack' = convertUnits(rtMetric.quantity, rtMetric.unit, FALSE, tie)
    /\ UNCHANGED <<rtQuantity, rtUnit, rtMetric, convertVars, durationVars, detailVars,
                   fractionVars, viewVars>>

NextRoundTrip ==
    \/ ConvertToMetric
    \/ ConvertBack

SpecRoundTrip == InitRoundTrip /\ [][NextRoundTrip]_vars

-----------------------------------------------------------------------------
(* The inputs formatDurationLong is checked on *)

MaxDurationLen == 4

DurationAlphabet == {"P", "T", "2", "H", "M", "S", "x"}

\* Every string over the alphabet, up to the length bound.
EnumeratedDurations ==
    UNION {[1..n -> DurationAlphabet] : n \in 0..MaxDurationLen}

HourTexts == {<< >>, <<"0","H">>, <<"1","H">>, <<"2","H">>, <<"1","0","H">>}
MinuteTexts == {<< >>, <<"0","M">>, <<"1","M">>, <<"3","0","M">>, <<"4","5","M">>}
SecondTexts == {<< >>, <<"0","S">>, <<"1","S">>, <<"3","0","S">>}

\* Durations of the form PT#H#M#S
WellFormedDurations ==
    {<<"P","T">> \o h \o m \o sec :
        h \in HourTexts, m \in MinuteTexts, sec \in SecondTexts}

OtherDurations ==
    {<<"g","a","r","b","a","g","e">>,
     <<"p","t","5","m">>,
     <<"P","1","D">>,
     <<"1","H","3","0","M">>,
     <<"P","T","1","H","3","0","M","x">>,
     <<"x","P","T","4","5","M">>,
     <<"P","T","3","0","S","x">>,
     <<"3","0"," ","m","i","n">>,
     <<"O","P","T","I","O","N","A","L">>,
     <<"P","T"," ","5","M">>,
     <<"P","T","M">>,
     <<"P","T","5">>}

Durations == EnumeratedDurations \cup WellFormedDurations \cup OtherDurations

InitDuration ==
    /\ fdIsoDuration \in {Str(d) : d \in Durations} \cup {Null}
    /\ fdResult = NotCalled
    /\ ConvertIdle
    /\ DetailIdle
    /\ RoundTripIdle
    /\ FractionIdle
    /\ ViewsIdle

CallFormatDurationLong ==
    /\ fdResult = NotCalled
    /\ fdResult' = formatDurationLong(fdIsoDuration)
    /\ UNCHANGED <<fdIsoDuration, convertVars, detailVars, roundTripVars, fractionVars, viewVars>>

NextDuration == CallFormatDurationLong

SpecDuration == InitDuration /\ [][NextDuration]_vars

-----------------------------------------------------------------------------
(* The inputs formatQuantityAsFraction is checked on *)

MaxWholePart == 3

FractionWholes == (0..MaxWholePart) \cup {10, 25}

\* Every number of thousandths, and a few finer decimal parts (in
\* ten-thousandths).
FractionQuantities ==
    {Num(w * 1000 + t, 1000) : w \in FractionWholes, t \in 0..999}
        \cup {Num(w * 10000 + t, 10000) : w \in FractionWholes,
                                          t \in {1, 5, 9, 11, 3333, 6667, 9949, 9951, 9999}}

InitFraction ==
    /\ fqQuantity \in FractionQuantities \cup {Null}
    /\ fqResult = NotCalled
    /\ ConvertIdle
    /\ DurationIdle
    /\ DetailIdle
    /\ RoundTripIdle
    /\ ViewsIdle

CallFormatQuantityAsFraction ==
    /\ fqResult = NotCalled
    /\ \E ties \in Ties :
          fqResult' = formatQuantityAsFraction(fqQuantity, ties)
    /\ UNCHANGED <<fqQuantity, convertVars, durationVars, detailVars, roundTripVars, viewVars>>

NextFraction == CallFormatQuantityAsFraction

SpecFraction == InitFraction /\ [][NextFraction]_vars

-----------------------------------------------------------------------------
(* The RecipeDetail component: the recipe arrives, the effect on [recipe]   *)
(* sets portions, the user clicks plus and minus and toggles the units.     *)

MaxPortions == 8

ServingsTexts ==
    {<<"4">>,
     <<"0">>,
     <<"1">>,
     <<"2">>,
     <<"0","8">>,
     <<"1","2">>,
     <<"4"," ","s","e","r","v","i","n","g","s">>,
     <<"S","e","r","v","e","s"," ","6">>,
     <<"4","-","6">>,
     <<"0"," ","s","e","r","v","i","n","g","s">>,
     <<"a"," ","f","e","w">>,
     <<"m","a","k","e","s"," ","1"," ","l","o","a","f">>,
     <<"-","3">>,
     << >>}

ItemQuantities ==
    {Null, Num(0, 1), Num(1, 8), Num(1, 4), Num(1, 3), Num(333, 1000), Num(1, 2),
     Num(3, 4), Num(1, 1), Num(3, 2), Num(2, 1), Num(5, 2), Num(60, 1)}

ItemUnits == {Null, Str(<< >>), Str(U_cup), Str(U_tsp), Str(U_tbsp), Str(U_ml), Str(U_g)}

ItemNotes == {Null, Str(<< >>), Str(<<"c","h","o","p","p","e","d">>)}

Recipes ==
    {[servings |-> sv,
      ingredients |-> <<[quantity |-> q, unit |-> u, notes |-> n]>>] :
        sv \in {Str(t) : t \in ServingsTexts} \cup {Null},
        q \in ItemQuantities, u \in ItemUnits, n \in ItemNotes}

\* The component mounts with the recipe still loading, or with the recipe
\* already in the query cache: useState(originalServings), and the effect
\* on [recipe] yet to run.
InitDetail ==
    /\ rdRecipe \in Recipes \cup {Null}
    /\ rdPortions = originalServings
    /\ rdIsMetric = FALSE
    /\ rdEffectPending = (rdRecipe # Null)
    /\ ConvertIdle
    /\ DurationIdle
    /\ RoundTripIdle
    /\ FractionIdle
    /\ ViewsIdle

\* useQuery delivers the recipe: a render with the new recipe, and the
\* effect on [recipe] is due.
QueryResolves ==
    /\ rdRecipe = Null
    /\ rdRecipe' \in Recipes
    /\ rdEffectPending' = TRUE
    /\ UNCHANGED <<rdPortions, rdIsMetric, convertVars, durationVars,
                   roundTripVars, fractionVars, viewVars>>

\* useEffect(() => { if (recipe) setPortions(parseServings(recipe.servings)) }, [recipe])
RecipeEffect ==
    /\ rdEffectPending
    /\ rdPortions' = IF rdRecipe # Null THEN parseServings(rdRecipe.servings)
                     ELSE rdPortions
    /\ rdEffectPending' = FALSE
    /\ UNCHANGED <<rdRecipe, rdIsMetric, convertVars, durationVars,
                   roundTripVars, fractionVars, viewVars>>

\* The controls are rendered once there is a recipe; React runs a pending
\* effect before it handles a click.
Interactive == rdRecipe # Null /\ ~rdEffectPending

\* onClick={() => setPortions(portions + 1)}
ClickPlus ==
    /\ Interactive
    /\ rdPortions < MaxPortions
    /\ rdPortions' = rdPortions + 1
    /\ UNCHANGED <<rdRecipe, rdIsMetric, rdEffectPending, convertVars, durationVars,
                   roundTripVars, fractionVars, viewVars>>

\* onClick={() => setPortions(Math.max(1, portions - 1))}, disabled={portions <= 1}
ClickMinus ==
    /\ Interactive
    /\ ~(rdPortions <= 1)
    /\ rdPortions' = IF rdPortions - 1 > 1 THEN rdPortions - 1 ELSE 1
    /\ UNCHANGED <<rdRecipe, rdIsMetric, rdEffectPending, convertVars, durationVars,
                   roundTripVars, fractionVars, viewVars>>

\* <Switch checked={isMetric} onCheckedChange={setIsMetric} />
ToggleMetric ==
    /\ Interactive
    /\ rdIsMetric' = ~rdIsMetric
    /\ UNCHANGED <<rdRecipe, rdPortions, rdEffectPending, convertVars, durationVars,
                   roundTripVars, fractionVars, viewVars>>

NextDetail ==
    \/ QueryResolves
    \/ RecipeEffect
    \/ ClickPlus
    \/ ClickMinus
    \/ ToggleMetric

SpecDetail == InitDetail /\ [][NextDetail]_vars

-----------------------------------------------------------------------------
(* RecipeDetail: all the handlers of the view, on a few recipes *)

MaxSteps == 1
StepNumbers == 1..MaxSteps

N_soup == <<"S","o","u","p">>
N_stew == <<"S","t","e","w">>

\* What the user may type into the name field
TypedNames == {<<" ">> \o N_stew \o <<" ">>, <<" ">>}

ImageUrls == {Str(<<"/","a">>), Str(<<"/","b">>)}

\* The files the user may pick: an image, an image above 5 MB, another file
Files ==
    {[isImage |-> TRUE, tooLarge |-> FALSE],
     [isImage |-> TRUE, tooLarge |-> TRUE],
     [isImage |-> FALSE, tooLarge |-> FALSE]}

ViewRecipes ==
    {[servings |-> sv,
      ingredients |-> <<[quantity |-> Num(1, 2), unit |-> Str(U_cup), notes |-> Null]>>,
      name |-> Str(N_soup),
      main_image_url |-> url] :
        sv \in {Null, Str(<<"6"," ","s","e","r","v","i","n","g","s">>)},
        url \in {Null, Str(<<"/","a">>)}}

\* The component mounts with the recipe in the query cache.
InitRecipeView ==
    /\ rdRecipe \in ViewRecipes
    /\ rdPortions = originalServings
    /\ rdIsMetric = FALSE
    /\ rdEffectPending = TRUE
    /\ EditIdle
    /\ ConvertIdle
    /\ DurationIdle
    /\ RoundTripIdle
    /\ FractionIdle
    /\ AppIdle
    /\ ListsIdle
    /\ GalleryIdle

\* onClick={() => toggleStep(step.step_number)}
ToggleStep ==
    /\ Interactive
    /\ \E stepNumber \in StepNumbers :
           rdCompletedSteps' = toggleStep(rdCompletedSteps, stepNumber)
    /\ UNCHANGED <<recipeVars, appVars, listVars, galleryVars, rdIsEditingName, rdEditedName, rdIsSaving,
                   rdIsUploadingImage, rdIsFetchingImage, rdImageError, rdImageLoaded,
                   rdPatch, rdUpload, rdFetch>>

\* handleEditName
EditName ==
    /\ Interactive
    /\ ~rdIsEditingName
    /\ rdEditedName' = rdRecipe.name
    /\ rdIsEditingName' = TRUE
    /\ UNCHANGED <<recipeVars, appVars, listVars, galleryVars, rdCompletedSteps, rdIsSaving,
                   rdIsUploadingImage, rdIsFetchingImage, rdImageError, rdImageLoaded,
                   rdPatch, rdUpload, rdFetch>>

\* onChange={(e) => setEditedName(e.target.value)}
TypeName ==
    /\ Interactive
    /\ rdIsEditingName
    /\ \E value \in TypedNames : rdEditedName' = Str(value)
    /\ UNCHANGED <<recipeVars, appVars, listVars, galleryVars, rdCompletedSteps, rdIsEditingName, rdIsSaving,
                   rdIsUploadingImage, rdIsFetchingImage, rdImageError, rdImageLoaded,
                   rdPatch, rdUpload, rdFetch>>

\* handleCancelEdit
CancelEdit ==
    /\ Interactive
    /\ rdIsEditingName
    /\ rdIsEditingName' = FALSE
    /\ rdEditedName' = Str(<< >>)
    /\ UNCHANGED <<recipeVars, appVars, listVars, galleryVars, rdCompletedSteps, rdIsSaving,
                   rdIsUploadingImage, rdIsFetchingImage, rdImageError, rdImageLoaded,
                   rdPatch, rdUpload, rdFetch>>

\* handleSaveName up to its await: the Save button is disabled while
\* isSaving (one PATCH in flight at a time).
SaveName ==
    /\ Interactive
    /\ rdIsEditingName
    /\ ~rdIsSaving
    /\ trim(rdEditedName.chars) # << >>
    /\ rdIsSaving' = TRUE
    /\ rdPatch' = Str(trim(rdEditedName.chars))
    /\ UNCHANGED <<recipeVars, appVars, listVars, galleryVars, rdCompletedSteps, rdIsEditingName, rdEditedName,
                   rdIsUploadingImage, rdIsFetchingImage, rdImageError, rdImageLoaded,
                   rdUpload, rdFetch>>

\* handleSaveName after its await, the PATCH answered with the recipe under
\* its new name: setQueryData, setIsEditingName(false), setIsSaving(false).
SaveNameSucceeds ==
    /\ rdPatch # Null
    /\ LET data == [rdRecipe EXCEPT !.name = rdPatch]
       IN  /\ rdRecipe' = data
           /\ rdPortions' = portionsAfterRender(data)
    /\ rdIsEditingName' = FALSE
    /\ rdIsSaving' = FALSE
    /\ rdPatch' = Null
    /\ UNCHANGED <<rdIsMetric, rdEffectPending, convertVars, durationVars, roundTripVars,
                   fractionVars, appVars, listVars, galleryVars, rdCompletedSteps, rdEditedName,
                   rdIsUploadingImage, rdIsFetchingImage, rdImageError, rdImageLoaded,
                   rdUpload, rdFetch>>

\* handleSaveName after its await, the PATCH failed: an alert, setIsSaving(false).
SaveNameFails ==
    /\ rdPatch # Null
    /\ rdIsSaving' = FALSE
    /\ rdPatch' = Null
    /\ UNCHANGED <<recipeVars, appVars, listVars, galleryVars, rdCompletedSteps, rdIsEditingName, rdEditedName,
                   rdIsUploadingImage, rdIsFetchingImage, rdImageError, rdImageLoaded,
                   rdUpload, rdFetch>>

\* handleImageUpload up to its await: a file that is no image or is above
\* 5 MB is refused with an alert.
ImageUpload ==
    /\ Interactive
    /\ ~rdIsUploadingImage
    /\ \E file \in Files :
           IF file.isImage /\ ~file.tooLarge
           THEN rdIsUploadingImage' = TRUE /\ rdUpload' = TRUE
           ELSE UNCHANGED <<rdIsUploadingImage, rdUpload>>
    /\ UNCHANGED <<recipeVars, appVars, listVars, galleryVars, rdCompletedSteps, rdIsEditingName, rdEditedName,
                   rdIsSaving, rdIsFetchingImage, rdImageError, rdImageLoaded,
                   rdPatch, rdFetch>>

\* handleImageUpload after its await, the POST answered with the recipe and
\* the address of its image.
ImageUploadSucceeds ==
    /\ rdUpload
    /\ \E url \in ImageUrls :
           LET data == [rdRecipe EXCEPT !.main_image_url = url]
           IN  /\ rdRecipe' = data
               /\ rdPortions' = portionsAfterRender(data)
    /\ rdImageError' = FALSE
    /\ rdImageLoaded' = FALSE
    /\ rdIsUploadingImage' = FALSE
    /\ rdUpload' = FALSE
    /\ UNCHANGED <<rdIsMetric, rdEffectPending, convertVars, durationVars, roundTripVars,
                   fractionVars, appVars, listVars, galleryVars, rdCompletedSteps, rdIsEditingName, rdEditedName,
                   rdIsSaving, rdIsFetchingImage, rdPatch, rdFetch>>

\* handleImageUpload after its await, the POST failed.
ImageUploadFails ==
    /\ rdUpload
    /\ rdIsUploadingImage' = FALSE
    /\ rdUpload' = FALSE
    /\ UNCHANGED <<recipeVars, appVars, listVars, galleryVars, rdCompletedSteps, rdIsEditingName, rdEditedName,
                   rdIsSaving, rdIsFetchingImage, rdImageError, rdImageLoaded,
                   rdPatch, rdFetch>>

\* The image is shown when there is an address and no error; the button
\* 'Try to fetch image' is shown otherwise.
imageShown == rdRecipe.main_image_url # Null /\ ~rdImageError

\* handleFetchImage up to its await; the handler keeps the recipe of its render.
FetchImage ==
    /\ Interactive
    /\ ~imageShown
    /\ ~rdIsFetchingImage
    /\ rdIsFetchingImage' = TRUE
    /\ rdFetch' = rdRecipe
    /\ UNCHANGED <<recipeVars, appVars, listVars, galleryVars, rdCompletedSteps, rdIsEditingName, rdEditedName,
                   rdIsSaving, rdIsUploadingImage, rdImageError, rdImageLoaded,
                   rdPatch, rdUpload>>

\* handleFetchImage after its await, the POST answered: the recipe is put
\* in the cache when its image differs from the one the handler saw.
FetchImageSucceeds ==
    /\ rdFetch # Null
    /\ \E url \in ImageUrls \cup {Null} :
           LET data == [rdRecipe EXCEPT !.main_image_url = url]
           IN  IF data.main_image_url # rdFetch.main_image_url
               THEN /\ rdRecipe' = data
                    /\ rdPortions' = portionsAfterRender(data)
                    /\ rdImageError' = FALSE
                    /\ rdImageLoaded' = FALSE
               ELSE UNCHANGED <<rdRecipe, rdPortions, rdImageError, rdImageLoaded>>
    /\ rdIsFetchingImage' = FALSE
    /\ rdFetch' = Null
    /\ UNCHANGED <<rdIsMetric, rdEffectPending, convertVars, durationVars, roundTripVars,
                   fractionVars, appVars, listVars, galleryVars, rdCompletedSteps, rdIsEditingName, rdEditedName,
                   rdIsSaving, rdIsUploadingImage, rdPatch, rdUpload>>

\* handleFetchImage after its await, the POST failed.
FetchImageFails ==
    /\ rdFetch # Null
    /\ rdIsFetchingImage' = FALSE
    /\ rdFetch' = Null
    /\ UNCHANGED <<recipeVars, appVars, listVars, galleryVars, rdCompletedSteps, rdIsEditingName, rdEditedName,
                   rdIsSaving, rdIsUploadingImage, rdImageError, rdImageLoaded,
                   rdPatch, rdUpload>>

\* onLoad={() => setImageLoaded(true)}
ImageLoads ==
    /\ ~rdEffectPending
    /\ imageShown
    /\ ~rdImageLoaded
    /\ rdImageLoaded' = TRUE
    /\ UNCHANGED <<recipeVars, appVars, listVars, galleryVars, rdCompletedSteps, rdIsEditingName, rdEditedName,
                   rdIsSaving, rdIsUploadingImage, rdIsFetchingImage, rdImageError,
                   rdPatch, rdUpload, rdFetch>>

\* onError={() => { ...; setImageError(true) }}
ImageFails ==
    /\ ~rdEffectPending
    /\ imageShown
    /\ ~rdImageLoaded
    /\ rdImageError' = TRUE
    /\ UNCHANGED <<recipeVars, appVars, listVars, galleryVars, rdCompletedSteps, rdIsEditingName, rdEditedName,
                   rdIsSaving, rdIsUploadingImage, rdIsFetchingImage, rdImageLoaded,
                   rdPatch, rdUpload, rdFetch>>

NextRecipeView ==
    \/ RecipeEffect
    \/ ClickPlus
    \/ ClickMinus
    \/ ToggleMetric
    \/ ToggleStep
    \/ EditName
    \/ TypeName
    \/ CancelEdit
    \/ SaveName
    \/ SaveNameSucceeds
    \/ SaveNameFails
    \/ ImageUpload
    \/ ImageUploadSucceeds
    \/ ImageUploadFails
    \/ FetchImage
    \/ FetchImageSucceeds
    \/ FetchImageFails
    \/ ImageLoads
    \/ ImageFails

SpecRecipeView == InitRecipeView /\ [][NextRecipeView]_vars

-----------------------------------------------------------------------------
(* GroceryListView: loading the list and toggling its items *)

MaxListItems == 2
MaxInFlight == 2

N_rice == <<"r","i","c","e">>
N_eggs == <<"e","g","g","s">>
ItemNames == <<N_rice, N_eggs>>

C_Spices == <<"S","p","i","c","e","s">>

\* The categories an item may carry
ItemCategories == {Null, Str(<< >>), Str(C_Produce), Str(C_Spices)}

\* The lists the server may hold: items 1..n, each with a category and a mark
ServerLists ==
    UNION {{[items |-> [i \in 1..n |->
                [id |-> i, ingredient_name |-> Str(ItemNames[i]),
                 category |-> categories[i], is_checked |-> checks[i]]]] :
               categories \in [1..n -> ItemCategories], checks \in [1..n -> BOOLEAN]} :
           n \in 0..MaxListItems}

\* The component is mounted and the GET of its effect is in flight.
InitGrocery ==
    /\ glGroceryList = Null
    /\ glLoading = TRUE
    /\ glError = Null
    /\ glServer \in ServerLists
    /\ glRequests = << >>
    /\ ProgressIdle
    /\ RecipeIdle
    /\ AppIdle
    /\ EditIdle
    /\ GalleryIdle

\* fetchGroceryList, the GET answered: setGroceryList(response.data), setLoading(false)
FetchListSucceeds ==
    /\ glLoading
    /\ glGroceryList' = glServer
    /\ glLoading' = FALSE
    /\ UNCHANGED <<glError, glServer, glRequests, progressVars, recipeVars, appVars, editVars, galleryVars>>

\* fetchGroceryList, the GET failed: setError(...), setLoading(false)
FetchListFails ==
    /\ glLoading
    /\ glError' = Str(<<"F","a","i","l","e","d"," ","t","o"," ","l","o","a","d"," ",
                        "g","r","o","c","e","r","y"," ","l","i","s","t">>)
    /\ glLoading' = FALSE
    /\ UNCHANGED <<glGroceryList, glServer, glRequests, progressVars, recipeVars, appVars,
                   editVars, galleryVars>>

\* The list is rendered: not loading, no error, a list.
ListShown == ~glLoading /\ glError = Null /\ glGroceryList # Null

removeAt(requests, n) == SubSeq(requests, 1, n - 1) \o SubSeq(requests, n + 1, Len(requests))

\* onClick={() => handleToggleItem(item.id)} on a rendered item: the PATCH
\* is sent, and the handler keeps the groceryList of the render it belongs to.
ClickItem ==
    /\ ListShown
    /\ Len(glRequests) < MaxInFlight
    /\ \E n \in 1..Len(renderedItems(glGroceryList)) :
           glRequests' = Append(glRequests,
               [itemId |-> renderedItems(glGroceryList)[n].id,
                groceryList |-> glGroceryList,
                response |-> Null])
    /\ UNCHANGED <<glGroceryList, glLoading, glError, glServer, progressVars, recipeVars,
                   appVars, editVars, galleryVars>>

\* The server handles a PATCH: it toggles the item and answers with it.
ServerToggles ==
    /\ \E n \in 1..Len(glRequests) :
           /\ glRequests[n].response = Null
           /\ LET index == CHOOSE i \in 1..Len(glServer.items) :
                               glServer.items[i].id = glRequests[n].itemId
                  updatedItem == [glServer.items[index] EXCEPT
                                     !.is_checked = ~glServer.items[index].is_checked]
              IN  /\ glServer' = [glServer EXCEPT !.items[index] = updatedItem]
                  /\ glRequests' = [glRequests EXCEPT ![n].response = updatedItem]
    /\ UNCHANGED <<glGroceryList, glLoading, glError, progressVars, recipeVars, appVars,
                   editVars, galleryVars>>

\* handleToggleItem after its await, for the request at place n
ToggleItemSucceeds(n) ==
    /\ glRequests[n].response # Null
    /\ glGroceryList' = withUpdatedItem(glRequests[n].groceryList, glRequests[n].itemId,
                                        glRequests[n].response)
    /\ glRequests' = removeAt(glRequests, n)
    /\ UNCHANGED <<glLoading, glError, glServer, progressVars, recipeVars, appVars, editVars, galleryVars>>

\* A response arrives, in any order.
ToggleSucceeds == \E n \in 1..Len(glRequests) : ToggleItemSucceeds(n)

\* handleToggleItem, the PATCH failed (on its way to the server or back):
\* the error is logged.
ToggleFails ==
    /\ \E n \in 1..Len(glRequests) : glRequests' = removeAt(glRequests, n)
    /\ UNCHANGED <<glGroceryList, glLoading, glError, glServer, progressVars, recipeVars,
                   appVars, editVars, galleryVars>>

NextGrocery ==
    \/ FetchListSucceeds
    \/ FetchListFails
    \/ ClickItem
    \/ ServerToggles
    \/ ToggleSucceeds
    \/ ToggleFails

SpecGrocery == InitGrocery /\ [][NextGrocery]_vars

-----------------------------------------------------------------------------
(* The progress of a grocery list *)

MaxItems == 204

InitProgress ==
    /\ pgLength \in 0..MaxItems
    /\ pgChecked \in 0..pgLength
    /\ pgResult = NotCalled
    /\ GroceryIdle
    /\ RecipeIdle
    /\ AppIdle
    /\ EditIdle
    /\ GalleryIdle

CallProgress ==
    /\ pgResult = NotCalled
    /\ pgResult' = progress(pgLength, pgChecked)
    /\ UNCHANGED <<pgLength, pgChecked, groceryVars, recipeVars, appVars, editVars, galleryVars>>

NextProgress == CallProgress

SpecProgress == InitProgress /\ [][NextProgress]_vars

-----------------------------------------------------------------------------
(* RecipeGallery: the delete button, its timeouts and the delete requests *)

MaxRecipes == 2
MaxTimers == 3
MaxDeletes == 2

RecipeIds == 1..MaxRecipes

\* The gallery shows the recipes the server holds.
InitGallery ==
    /\ deleteConfirm = Null
    /\ rgRecipes = RecipeIds
    /\ rgServer = RecipeIds
    /\ rgTimers = << >>
    /\ rgDeletes = << >>
    /\ rgAlerts = {}
    /\ RecipeIdle
    /\ AppIdle
    /\ EditIdle
    /\ ListsIdle

\* handleDelete(recipe.id, recipe.name), from the delete button of a recipe shown
ClickDelete(recipeId) ==
    /\ recipeId \in rgRecipes
    /\ IF confirmed(deleteConfirm, recipeId)
       THEN /\ Len(rgDeletes) < MaxDeletes
            /\ rgDeletes' = Append(rgDeletes, recipeId)
            /\ rgAlerts' = rgAlerts \cup {MovedToTrash(recipeId)}
            /\ UNCHANGED <<deleteConfirm, rgTimers>>
       ELSE /\ Len(rgTimers) < MaxTimers
            /\ deleteConfirm' = Num(recipeId, 1)
            /\ rgTimers' = Append(rgTimers, TimeoutSeconds)
            /\ UNCHANGED <<rgDeletes, rgAlerts>>
    /\ UNCHANGED <<rgRecipes, rgServer, recipeVars, appVars, editVars, listVars>>

Click == \E recipeId \in RecipeIds : ClickDelete(recipeId)

\* A second passes; a timeout that has run out fires first.
Tick ==
    /\ rgTimers # << >>
    /\ \A i \in 1..Len(rgTimers) : rgTimers[i] > 0
    /\ rgTimers' = [i \in 1..Len(rgTimers) |-> rgTimers[i] - 1]
    /\ UNCHANGED <<deleteConfirm, rgRecipes, rgServer, rgDeletes, rgAlerts,
                   recipeVars, appVars, editVars, listVars>>

\* The oldest timeout fires: setDeleteConfirm(null)
TimerFires ==
    /\ rgTimers # << >>
    /\ Head(rgTimers) = 0
    /\ deleteConfirm' = Null
    /\ rgTimers' = Tail(rgTimers)
    /\ UNCHANGED <<rgRecipes, rgServer, rgDeletes, rgAlerts,
                   recipeVars, appVars, editVars, listVars>>

\* The request at place n is answered: the server has moved the recipe to
\* the trash, and onSuccess takes it out of the cached list (and has the
\* trash count fetched again) and calls setDeleteConfirm(null).
DeleteSucceeds(n) ==
    /\ rgDeletes[n] \in rgServer
    /\ rgServer' = rgServer \ {rgDeletes[n]}
    /\ rgRecipes' = withoutRecipe(rgRecipes, rgDeletes[n])
    /\ deleteConfirm' = Null
    /\ rgDeletes' = removeAt(rgDeletes, n)
    /\ UNCHANGED <<rgTimers, rgAlerts, recipeVars, appVars, editVars, listVars>>

\* The request at place n fails (the server has no such recipe, or an error
\* of the server or the network): onError.
DeleteFails(n) ==
    /\ rgAlerts' = rgAlerts \cup {FailedToDelete}
    /\ rgDeletes' = removeAt(rgDeletes, n)
    /\ UNCHANGED <<deleteConfirm, rgRecipes, rgServer, rgTimers,
                   recipeVars, appVars, editVars, listVars>>

DeleteAnswered == \E n \in 1..Len(rgDeletes) : DeleteSucceeds(n) \/ DeleteFails(n)

NextGallery ==
    \/ Click
    \/ Tick
    \/ TimerFires
    \/ DeleteAnswered

SpecGallery == InitGallery /\ [][NextGallery]_vars

-----------------------------------------------------------------------------
(* App and its ErrorBoundary *)

\* What the page may find in localStorage: nothing, or what an earlier visit saved
SavedPreferences == {Null, Str(S_true), Str(S_false)}

Fallbacks == {Absent, Null, Element("custom")}

\* What a descendant may throw: an Error with or without a message, or undefined
ThrownValues == {Error(<<"b","o","o","m">>), Error(<< >>), Absent}

\* The page is loaded: the first render of App and of its ErrorBoundary is
\* done, the effect on [darkMode] is yet to run.
InitApp ==
    /\ lsDarkMode \in SavedPreferences
    /\ prefersDark \in BOOLEAN
    /\ darkMode = initialDarkMode(lsDarkMode, prefersDark)
    /\ classList = {}
    /\ mobileMenuOpen = FALSE
    /\ pathname \in LinkPaths
    /\ appPhase = "mounting"
    /\ ebFallback \in Fallbacks
    /\ ebState = initialState
    /\ ebRendered = render(ebFallback, ebState)
    /\ RecipeIdle
    /\ EditIdle
    /\ ListsIdle
    /\ GalleryIdle

\* useEffect(() => { ...; localStorage.setItem('darkMode', String(darkMode)) }, [darkMode])
DarkModeEffect ==
    /\ appPhase \in {"mounting", "updating"}
    /\ classList' = effectClassList(darkMode, classList)
    /\ lsDarkMode' = booleanToString(darkMode)
    /\ appPhase' = "mounted"
    /\ UNCHANGED <<prefersDark, darkMode, mobileMenuOpen, pathname,
                   ebFallback, ebState, ebRendered, recipeVars, editVars, listVars, galleryVars>>

\* React runs a pending effect before it handles a click.
AppInteractive == appPhase = "mounted"

\* onClick={toggleDarkMode}: App renders again, and so does its ErrorBoundary.
ToggleDarkMode ==
    /\ AppInteractive
    /\ darkMode' = toggleDarkMode(darkMode)
    /\ appPhase' = "updating"
    /\ ebRendered' = render(ebFallback, ebState)
    /\ UNCHANGED <<lsDarkMode, prefersDark, classList, mobileMenuOpen, pathname,
                   ebFallback, ebState, recipeVars, editVars, listVars, galleryVars>>

\* onClick={() => setMobileMenuOpen(!mobileMenuOpen)}
ToggleMobileMenu ==
    /\ AppInteractive
    /\ mobileMenuOpen' = ~mobileMenuOpen
    /\ ebRendered' = render(ebFallback, ebState)
    /\ UNCHANGED <<lsDarkMode, prefersDark, darkMode, classList, pathname, appPhase,
                   ebFallback, ebState, recipeVars, editVars, listVars, galleryVars>>

\* A link of the header or of the bottom navigation
ClickLink ==
    /\ AppInteractive
    /\ \E to \in LinkPaths : pathname' = to
    /\ ebRendered' = render(ebFallback, ebState)
    /\ UNCHANGED <<lsDarkMode, prefersDark, darkMode, classList, mobileMenuOpen, appPhase,
                   ebFallback, ebState, recipeVars, editVars, listVars, galleryVars>>

\* A link of the mobile menu: onClick={() => setMobileMenuOpen(false)}
ClickMobileLink ==
    /\ AppInteractive
    /\ mobileMenuOpen
    /\ \E to \in LinkPaths : pathname' = to
    /\ mobileMenuOpen' = FALSE
    /\ ebRendered' = render(ebFallback, ebState)
    /\ UNCHANGED <<lsDarkMode, prefersDark, darkMode, classList, appPhase,
                   ebFallback, ebState, recipeVars, editVars, listVars, galleryVars>>

\* A descendant throws while the children render: getDerivedStateFromError,
\* componentDidCatch (a log), and the boundary renders again.
ChildThrows ==
    /\ ~ebState.hasError
    /\ \E error \in ThrownValues : ebState' = getDerivedStateFromError(error)
    /\ ebRendered' = render(ebFallback, ebState')
    /\ UNCHANGED <<lsDarkMode, prefersDark, darkMode, classList, mobileMenuOpen, pathname,
                   appPhase, ebFallback, recipeVars, editVars, listVars, galleryVars>>

\* 'Try again': setState({ hasError: false, error: undefined }) and
\* window.location.reload(), which loads the page anew.
TryAgain ==
    /\ AppInteractive
    /\ ebRendered.kind = "default"
    /\ ebState' = [hasError |-> FALSE, error |-> Absent]
    /\ ebRendered' = render(ebFallback, ebState')
    /\ darkMode' = initialDarkMode(lsDarkMode, prefersDark)
    /\ classList' = {}
    /\ mobileMenuOpen' = FALSE
    /\ appPhase' = "mounting"
    /\ UNCHANGED <<lsDarkMode, prefersDark, pathname, ebFallback, recipeVars, editVars, listVars, galleryVars>>

NextApp ==
    \/ DarkModeEffect
    \/ ToggleDarkMode
    \/ ToggleMobileMenu
    \/ ClickLink
    \/ ClickMobileLink
    \/ ChildThrows
    \/ TryAgain

SpecApp == InitApp /\ [][NextApp]_vars

-----------------------------------------------------------------------------
(* What the specification says of the converter, stated without the model's *)
(* switch: the table of section 4.2, matched without regard to case.        *)

\* s and t are the same string up to the case of their letters.
EqIgnoreCase(s, t) ==
    /\ Len(s) = Len(t)
    /\ \A i \in 1..Len(s) :
          \/ s[i] = t[i]
          \/ \E k \in 1..Len(UpperCaseLetters) :
                {s[i], t[i]} = {UpperCaseLetters[k], LowerCaseLetters[k]}

IsAlias(chars, aliases) == \E a \in aliases : EqIgnoreCase(chars, a)

LessThan(quantity, t) == quantity.num < t * quantity.den

\* The rule of section 4.2 for (quantity, unit, toMetric): the number n/d the
\* quantity is multiplied by and the unit of the result; "none" when the
\* specification says pass-through.
SpecRule(quantity, chars, toMetric) ==
    IF toMetric
    THEN CASE IsAlias(chars, {U_cup, U_cups}) -> [by |-> Dec(240, 1), unit |-> U_ml]
           [] IsAlias(chars, {U_floz, U_fluidounce}) -> [by |-> Dec(295735, 10000), unit |-> U_ml]
           [] IsAlias(chars, {U_oz, U_ounce, U_ounces}) -> [by |-> Dec(2835, 100), unit |-> U_g]
           [] IsAlias(chars, {U_lb, U_lbs, U_pound, U_pounds}) -> [by |-> Dec(453592, 1000), unit |-> U_g]
           [] IsAlias(chars, {U_tsp, U_teaspoon}) -> [by |-> Dec(4929, 1000), unit |-> U_ml]
           [] IsAlias(chars, {U_tbsp, U_tablespoon}) -> [by |-> Dec(1479, 100), unit |-> U_ml]
           [] OTHER -> [by |-> Dec(1, 1), unit |-> "none"]
    ELSE CASE IsAlias(chars, {U_ml}) /\ ~LessThan(quantity, 236) ->
                [by |-> Dec(1000, 236588), unit |-> U_cups]
           [] IsAlias(chars, {U_ml}) /\ LessThan(quantity, 236) /\ ~LessThan(quantity, 14) ->
                [by |-> Dec(100, 1479), unit |-> U_tbsp]
           [] IsAlias(chars, {U_ml}) /\ LessThan(quantity, 14) /\ ~LessThan(quantity, 4) ->
                [by |-> Dec(1000, 4929), unit |-> U_tsp]
           [] IsAlias(chars, {U_g, U_gram, U_grams}) /\ ~LessThan(quantity, 450) ->
                [by |-> Dec(1000, 453592), unit |-> U_lbs]
           [] IsAlias(chars, {U_g, U_gram, U_grams}) /\ LessThan(quantity, 450)
                /\ ~LessThan(quantity, 28) ->
                [by |-> Dec(100, 2835), unit |-> U_oz]
           [] OTHER -> [by |-> Dec(1, 1), unit |-> "none"]

HasTwoDecimals(v) == IsNumber(v) /\ 100 % v.den = 0

Hundredths(v) == v.num * (100 \div v.den)

\* v has at most two decimals and no hundredth is nearer to x * f.n / f.d
\* (at a tie, either neighbour).
IsNearestHundredth(v, x, f) ==
    LET a == 100 * f.n
        g == GCD(a, f.d)
        m == x.den * (f.d \div g)
        e == MulDiv(x.num, a \div g, m)
    IN  /\ HasTwoDecimals(v)
        /\ \/ Hundredths(v) = e.q /\ 2 * e.r <= m
           \/ Hundredths(v) = e.q + 1 /\ 2 * e.r >= m

Converted == cvResult # NotCalled /\ cvQuantity # Null /\ cvUnit # Null

\* C1: metric to imperial (toMetric = false) picks the unit by the magnitude
\* of the input quantity: ml at q >= 236 is q / 236.588 cups, at 14 <= q < 236
\* q / 14.79 tbsp, at 4 <= q < 14 q / 4.929 tsp; g, gram, grams at q >= 450 is
\* q / 453.592 lbs and at 28 <= q < 450 q / 28.35 oz; each rounded to the
\* nearest hundredth.
C1_ThresholdRules ==
    (Converted /\ ~cvToMetric) =>
        /\ (cvUnit.chars = U_ml /\ AtLeast(cvQuantity, 236)) =>
              /\ cvResult.unit = Str(U_cups)
              /\ IsNearestHundredth(cvResult.quantity, cvQuantity, Dec(1000, 236588))
        /\ (cvUnit.chars = U_ml /\ AtLeast(cvQuantity, 14) /\ LessThan(cvQuantity, 236)) =>
              /\ cvResult.unit = Str(U_tbsp)
              /\ IsNearestHundredth(cvResult.quantity, cvQuantity, Dec(100, 1479))
        /\ (cvUnit.chars = U_ml /\ AtLeast(cvQuantity, 4) /\ LessThan(cvQuantity, 14)) =>
              /\ cvResult.unit = Str(U_tsp)
              /\ IsNearestHundredth(cvResult.quantity, cvQuantity, Dec(1000, 4929))
        /\ (cvUnit.chars \in {U_g, U_gram, U_grams} /\ AtLeast(cvQuantity, 450)) =>
              /\ cvResult.unit = Str(U_lbs)
              /\ IsNearestHundredth(cvResult.quantity, cvQuantity, Dec(1000, 453592))
        /\ (cvUnit.chars \in {U_g, U_gram, U_grams} /\ AtLeast(cvQuantity, 28)
                /\ LessThan(cvQuantity, 450)) =>
              /\ cvResult.unit = Str(U_oz)
              /\ IsNearestHundredth(cvResult.quantity, cvQuantity, Dec(100, 2835))

\* convert(100, 'ml', false) has been called and returned 6.76 tbsp.
C1_Witness ==
    /\ cvQuantity = Num(100, 1) /\ cvUnit = Str(U_ml) /\ ~cvToMetric
    /\ cvResult = [quantity |-> Num(676, 100), unit |-> Str(U_tbsp)]

\* C2: imperial to metric (toMetric = true) has no thresholds: whatever the
\* quantity and the letter case of the unit, a unit of the table is replaced
\* by ml or g and the quantity multiplied by the table's factor, rounded to
\* the nearest hundredth.
C2_FixedFactors ==
    (Converted /\ cvToMetric /\ SpecRule(cvQuantity, cvUnit.chars, TRUE).unit # "none") =>
        LET rule == SpecRule(cvQuantity, cvUnit.chars, TRUE)
        IN  /\ cvResult.unit = Str(rule.unit)
            /\ IsNearestHundredth(cvResult.quantity, cvQuantity, rule.by)

\* convert(2.5, 'Tbsp', true) has been called and returned 36.98 ml.
C2_Witness ==
    /\ cvQuantity = Num(5, 2) /\ cvUnit = Str(<<"T","b","s","p">>) /\ cvToMetric
    /\ cvResult = [quantity |-> Num(3698, 100), unit |-> Str(U_ml)]

\* C3 (as claimed): when no rule applies, convert returns exactly the input
\* quantity and exactly the input unit.
C3_PassThroughUntouched ==
    (Converted /\ SpecRule(cvQuantity, cvUnit.chars, cvToMetric).unit = "none") =>
        /\ cvResult.quantity = cvQuantity
        /\ cvResult.unit = cvUnit

\* C8 (as claimed): for x > 0, convert(x, 'cup', true) is exactly x * 240 ml.
C8_ExactlyTimes240 ==
    (Converted /\ cvToMetric /\ cvUnit = Str(U_cup) /\ cvQuantity.num > 0) =>
        /\ cvResult.unit = Str(U_ml)
        /\ cvResult.quantity = Num(cvQuantity.num * 240, cvQuantity.den)

\* C8 (amended): for x > 0, convert(x, 'cup', true) has unit ml and the
\* quantity x * 240 rounded to the nearest hundredth; it is exactly x * 240
\* whenever x * 240 has at most two decimals.
C8_Times240Rounded ==
    (Converted /\ cvToMetric /\ cvUnit = Str(U_cup) /\ cvQuantity.num > 0) =>
        /\ cvResult.unit = Str(U_ml)
        /\ IsNearestHundredth(cvResult.quantity, cvQuantity, Dec(240, 1))
        /\ HasTwoDecimals(Num(cvQuantity.num * 240, cvQuantity.den)) =>
              cvResult.quantity = Num(cvQuantity.num * 240, cvQuantity.den)

\* convert(0.0049, 'cup', true) has been called: 1.176 ml is returned as 1.18.
C8_Witness ==
    /\ cvQuantity = Num(49, 10000) /\ cvUnit = Str(U_cup) /\ cvToMetric
    /\ cvResult = [quantity |-> Num(118, 100), unit |-> Str(U_ml)]

\* C9: with a null quantity or a null unit, convert returns the pair as
\* given, for both values of toMetric.
C9_NullPassThrough ==
    (cvResult # NotCalled /\ (cvQuantity = Null \/ cvUnit = Null)) =>
        cvResult = [quantity |-> cvQuantity, unit |-> cvUnit]

\* convert(null, 'cup', true) has been called and returned {null, 'cup'}.
C9_Witness ==
    /\ cvQuantity = Null /\ cvUnit = Str(U_cup) /\ cvToMetric
    /\ cvResult = [quantity |-> Null, unit |-> Str(U_cup)]

\* C10: for a non-null quantity and unit, the returned quantity has at most
\* two decimals and is the exact result (the quantity times the factor of
\* the rule that applies, or the quantity itself) rounded to the nearest
\* hundredth.
C10_RoundedToHundredths ==
    Converted =>
        IsNearestHundredth(cvResult.quantity, cvQuantity,
                           SpecRule(cvQuantity, cvUnit.chars, cvToMetric).by)

\* convert(0.125, 'tsp', true) has been called: 0.616125 ml is returned as 0.62.
C10_Witness ==
    /\ cvQuantity = Num(1, 8) /\ cvUnit = Str(U_tsp) /\ cvToMetric
    /\ cvResult = [quantity |-> Num(62, 100), unit |-> Str(U_ml)]

-----------------------------------------------------------------------------
(* What the specification says of the duration formatter, stated without    *)
(* the model's matcher: the form PT(\d+H)?(\d+M)?(\d+S)? of section 4.4.     *)

\* s[from..to] is empty, or is digits followed by the letter.
IsComponent(s, from, to, letter) ==
    \/ to = from - 1
    \/ /\ to > from
       /\ s[to] = letter
       /\ \A i \in from..(to - 1) : isDigit(s[i])

\* The positions at which the hour and the minute component of s end, when
\* the whole of s is PT, hours, minutes, seconds.
FormSplits(s) ==
    {p \in (2..Len(s)) \X (2..Len(s)) :
        /\ p[1] <= p[2]
        /\ IsComponent(s, 3, p[1], "H")
        /\ IsComponent(s, p[1] + 1, p[2], "M")
        /\ IsComponent(s, p[2] + 1, Len(s), "S")}

IsDurationForm(s) ==
    /\ Len(s) >= 2
    /\ s[1] = "P" /\ s[2] = "T"
    /\ FormSplits(s) # {}

ComponentValue(s, from, to) ==
    IF to = from - 1 THEN 0 ELSE parseInt(SubSeq(s, from, to - 1))

EndsWith(s, t) ==
    Len(s) >= Len(t) /\ SubSeq(s, Len(s) - Len(t) + 1, Len(s)) = t

Contains(s, t) ==
    \E i \in 1..(Len(s) - Len(t) + 1) : SubSeq(s, i, i + Len(t) - 1) = t

\* C5 (as claimed): for a duration of the form PT#H#M#S, the output ends with
\* "<s> second" or "<s> seconds" when seconds > 0 and hours = 0, and holds
\* no seconds otherwise.
C5_SecondsWhenNoHours ==
    (fdResult # NotCalled /\ fdIsoDuration # Null
        /\ IsDurationForm(fdIsoDuration.chars)) =>
        LET s == fdIsoDuration.chars
            split == CHOOSE p \in FormSplits(s) : TRUE
            hours == ComponentValue(s, 3, split[1])
            seconds == ComponentValue(s, split[2] + 1, Len(s))
            text == numberToString(seconds) \o <<" ","s","e","c","o","n","d">>
                        \o (IF seconds > 1 THEN <<"s">> ELSE << >>)
        IN  IF seconds > 0 /\ hours = 0
            THEN EndsWith(fdResult.chars, text)
            ELSE ~Contains(fdResult.chars, <<"s","e","c","o","n","d">>)

\* C6 (as claimed): a non-empty string that is not of the form
\* PT(\d+H)?(\d+M)?(\d+S)? is returned verbatim.
C6_MalformedVerbatim ==
    (fdResult # NotCalled /\ fdIsoDuration # Null /\ fdIsoDuration.chars # << >>
        /\ ~IsDurationForm(fdIsoDuration.chars)) =>
        fdResult = fdIsoDuration

\* The components of a duration of the form PT#H#M#S.
FormHours(s) ==
    ComponentValue(s, 3, (CHOOSE p \in FormSplits(s) : TRUE)[1])
FormMinutes(s) ==
    LET split == CHOOSE p \in FormSplits(s) : TRUE
    IN  ComponentValue(s, split[1] + 1, split[2])
FormSeconds(s) ==
    ComponentValue(s, (CHOOSE p \in FormSplits(s) : TRUE)[2] + 1, Len(s))

\* "<n> <name>", with an s when n is above 1
Counted(n, name) ==
    numberToString(n) \o <<" ">> \o name \o (IF n > 1 THEN <<"s">> ELSE << >>)

FormattedForm ==
    fdResult # NotCalled /\ fdIsoDuration # Null /\ IsDurationForm(fdIsoDuration.chars)

\* C17: for a duration of the form PT#H#M#S with hours h and minutes m, not
\* both 0, the output is "<h> hour(s)" when h > 0, then "<m> minute(s)" when
\* m > 0, in the singular exactly for 1, with one space between the two.
C17_HoursThenMinutes ==
    FormattedForm =>
        LET h == FormHours(fdIsoDuration.chars)
            m == FormMinutes(fdIsoDuration.chars)
        IN  (h > 0 \/ m > 0) =>
                fdResult.chars =
                    IF h > 0 /\ m > 0
                    THEN Counted(h, <<"h","o","u","r">>) \o <<" ">> \o Counted(m, <<"m","i","n","u","t","e">>)
                    ELSE IF h > 0 THEN Counted(h, <<"h","o","u","r">>)
                    ELSE Counted(m, <<"m","i","n","u","t","e">>)

\* formatDuration('PT1H30M') has returned '1 hour 30 minutes'.
C17_Witness ==
    /\ fdIsoDuration = Str(<<"P","T","1","H","3","0","M">>)
    /\ fdResult = Str(<<"1"," ","h","o","u","r"," ","3","0"," ","m","i","n","u","t","e","s">>)

\* C18: the output is the empty string exactly when the input is null or
\* empty.
C18_EmptyOnlyForNothing ==
    fdResult # NotCalled =>
        (fdResult = Str(<< >>) <=> (fdIsoDuration = Null \/ fdIsoDuration = Str(<< >>)))

\* formatDuration(null) has returned ''.
C18_Witness ==
    /\ fdIsoDuration = Null
    /\ fdResult = Str(<< >>)

\* C19: a duration of the form PT#H#M#S whose hours, minutes and seconds are
\* all zero or absent gives '0 minutes'.
C19_ZeroMinutes ==
    (/\ FormattedForm
     /\ FormHours(fdIsoDuration.chars) = 0
     /\ FormMinutes(fdIsoDuration.chars) = 0
     /\ FormSeconds(fdIsoDuration.chars) = 0) =>
        fdResult = Str(<<"0"," ","m","i","n","u","t","e","s">>)

\* formatDuration('PT0S') has returned '0 minutes'.
C19_Witness ==
    /\ fdIsoDuration = Str(<<"P","T","0","S">>)
    /\ fdResult = Str(<<"0"," ","m","i","n","u","t","e","s">>)

-----------------------------------------------------------------------------
(* What the specification says of portions and of the quantity scaler *)

\* C4 (as claimed): once the recipe is loaded, whatever its servings string
\* and whatever plus and minus clicks came before, portions >= 1 and the
\* scale factor portions / originalServings is a finite number > 0.
C4_PortionsAndScaleFactor ==
    Interactive =>
        /\ rdPortions >= 1
        /\ IsNumber(scaleFactor)
        /\ scaleFactor.num > 0
        /\ scaleFactor.num * originalServings = rdPortions * scaleFactor.den

\* s is the product q * f of a number q and a factor f.
IsProduct(s, q, f) ==
    IF IsNumber(f)
    THEN IsNumber(s) /\ s.num * q.den * f.den = q.num * f.num * s.den
    ELSE IF q.num = 0 THEN s = NaN ELSE s = f

\* C7 (as claimed): scale(null, f) = null, and for every non-null quantity,
\* 0 included, scale(quantity, f) = quantity * f, unrounded.
C7_ScaleEveryNonNull ==
    rdRecipe # Null =>
        \A i \in 1..Len(rdRecipe.ingredients) :
            LET item == rdRecipe.ingredients[i]
            IN  IF item.quantity = Null
                THEN scaledQuantity(item) = Null
                ELSE IsProduct(scaledQuantity(item), item.quantity, scaleFactor)

\* C7 (amended): scale(null, f) = null and scale(0, f) = null, and for every
\* non-null quantity other than 0, scale(quantity, f) = quantity * f,
\* unrounded.
C7_ScaleNonZero ==
    rdRecipe # Null =>
        \A i \in 1..Len(rdRecipe.ingredients) :
            LET item == rdRecipe.ingredients[i]
            IN  IF item.quantity = Null \/ item.quantity.num = 0
                THEN scaledQuantity(item) = Null
                ELSE IsProduct(scaledQuantity(item), item.quantity, scaleFactor)

\* A recipe for 4 shown at 6 portions: the quantity 2 is scaled by 1.5 to 3.
C7_Witness ==
    /\ Interactive
    /\ rdRecipe.servings = Str(<<"4">>)
    /\ rdPortions = 6
    /\ rdRecipe.ingredients[1].quantity = Num(2, 1)
    /\ scaledQuantity(rdRecipe.ingredients[1]) = Num(3, 1)

-----------------------------------------------------------------------------
(* What the specification says of the round trip and of the thresholds *)

VolumeUnits == {U_cup, U_cups, U_tbsp, U_tablespoon, U_tsp, U_teaspoon}
WeightUnits == {U_oz, U_ounce, U_ounces, U_lb, U_lbs, U_pound, U_pounds}

\* The names of one unit.
UnitNames ==
    {{U_cup, U_cups}, {U_tbsp, U_tablespoon}, {U_tsp, U_teaspoon},
     {U_oz, U_ounce, U_ounces}, {U_lb, U_lbs, U_pound, U_pounds}}

SameUnit(u, v) == \E names \in UnitNames : u \in names /\ v \in names

\* |y - x| <= 0.02 * x + 0.01 for a whole number x
WithinTwoPercent(y, x) ==
    LET diff == 100 * y.num - 100 * x * y.den
    IN  (IF diff >= 0 THEN diff ELSE -diff) <= (2 * x + 1) * y.den

\* C11: a whole quantity x >= 1 of cup, tbsp, tsp, oz or lb, converted to
\* metric and back, comes back in an imperial unit of the same family
\* (volume or weight), and when it comes back in the unit it started in,
\* the quantity is within 2% of x plus 0.01.
C11_RoundTrip ==
    rtBack # NotCalled =>
        /\ rtUnit.chars \in VolumeUnits => rtBack.unit.chars \in VolumeUnits
        /\ rtUnit.chars \in WeightUnits => rtBack.unit.chars \in WeightUnits
        /\ SameUnit(rtUnit.chars, rtBack.unit.chars) =>
              WithinTwoPercent(rtBack.quantity, rtQuantity.num)

\* 3 cups have been converted to 720 ml and back to 3.04 cups.
C11_Witness ==
    /\ rtQuantity = Num(3, 1) /\ rtUnit = Str(U_cup)
    /\ rtMetric = [quantity |-> Num(720, 1), unit |-> Str(U_ml)]
    /\ rtBack = [quantity |-> Num(304, 100), unit |-> Str(U_cups)]

\* The place of a unit in the order ml < tsp < tbsp < cups, or g < oz < lbs.
UnitRank(chars) ==
    CASE chars = U_tsp \/ chars = U_oz -> 1
      [] chars = U_tbsp \/ chars = U_lbs -> 2
      [] chars = U_cups -> 3
      [] OTHER -> 0

\* The unit the thresholds of section 4.2 give for the quantity, metric to
\* imperial; the unit as written when they give none.
ThresholdUnit(quantity, unit) ==
    LET rule == SpecRule(quantity, unit.chars, FALSE)
    IN  IF rule.unit = "none" THEN unit ELSE Str(rule.unit)

\* q1 <= q2, for quantities that are whole numbers of ten-thousandths
NoMoreThan(q1, q2) ==
    q1.num * (10000 \div q1.den) <= q2.num * (10000 \div q2.den)

\* C12: metric to imperial, for ml and for g, gram, grams: a quantity that
\* is no smaller never gets a smaller unit (ml < tsp < tbsp < cups,
\* g < oz < lbs), and the doubled quantity gets a unit that is no smaller
\* and is the one the thresholds give for the doubled quantity.
C12_MonotoneUnit ==
    (Converted /\ ~cvToMetric /\ IsAlias(cvUnit.chars, {U_ml, U_g, U_gram, U_grams})) =>
        /\ \A q2 \in Quantities, tie \in BOOLEAN :
              NoMoreThan(cvQuantity, q2) =>
                 UnitRank(convertUnits(q2, cvUnit, FALSE, tie).unit.chars)
                    >= UnitRank(cvResult.unit.chars)
        /\ \A tie \in BOOLEAN :
              LET doubled == Num(2 * cvQuantity.num, cvQuantity.den)
                  result == convertUnits(doubled, cvUnit, FALSE, tie)
              IN  /\ UnitRank(result.unit.chars) >= UnitRank(cvResult.unit.chars)
                  /\ result.unit = ThresholdUnit(doubled, cvUnit)

\* convert(235, 'ml', false) has returned tbsp; the doubled quantity, 470 ml,
\* is given in cups.
C12_Witness ==
    /\ cvQuantity = Num(235, 1) /\ cvUnit = Str(U_ml) /\ ~cvToMetric
    /\ cvResult # NotCalled /\ cvResult.unit = Str(U_tbsp)
    /\ \A tie \in BOOLEAN :
          convertUnits(Num(470, 1), cvUnit, FALSE, tie).unit = Str(U_cups)

-----------------------------------------------------------------------------
(* What the specification says of the fraction formatter: the table of      *)
(* section 4.3, in thousandths.                                             *)

CommonFractions ==
    <<[thousandths |-> 125, display |-> <<"1","/","8">>],
      [thousandths |-> 250, display |-> <<"1","/","4">>],
      [thousandths |-> 333, display |-> <<"1","/","3">>],
      [thousandths |-> 375, display |-> <<"3","/","8">>],
      [thousandths |-> 500, display |-> <<"1","/","2">>],
      [thousandths |-> 625, display |-> <<"5","/","8">>],
      [thousandths |-> 666, display |-> <<"2","/","3">>],
      [thousandths |-> 667, display |-> <<"2","/","3">>],
      [thousandths |-> 750, display |-> <<"3","/","4">>],
      [thousandths |-> 875, display |-> <<"7","/","8">>]>>

Formatted == fqResult # NotCalled /\ fqQuantity # Null /\ fqQuantity.num > 0

WholePart(q) == q.num \div q.den

\* The decimal part of q: n / d
DecimalPart(q) == [n |-> q.num % q.den, d |-> q.den]

\* 100 times the distance between the table entry and the decimal part,
\* over the denominator 1000 * dec.d
Distance100(entry, dec) ==
    LET diff == entry.thousandths * dec.d - 1000 * dec.n
    IN  100 * (IF diff >= 0 THEN diff ELSE -diff)

\* The entry is nearer than 0.01 to the decimal part.
Nearer(entry, dec) == Distance100(entry, dec) < 1000 * dec.d

\* The entry is at 0.01 from the decimal part or nearer.
NearOrAt(entry, dec) == Distance100(entry, dec) <= 1000 * dec.d

\* C14: for q > 0 whose decimal part is 0.001 or more and has a table entry
\* nearer than 0.01, the output is the display of the first such entry, after
\* the whole part and a space when the whole part is above 0.
C14_FirstFractionWithin ==
    Formatted =>
        LET whole == WholePart(fqQuantity)
            dec == DecimalPart(fqQuantity)
            near == {i \in 1..Len(CommonFractions) : Nearer(CommonFractions[i], dec)}
        IN  (1000 * dec.n >= dec.d /\ near # {}) =>
                LET first == CHOOSE i \in near : \A j \in near : i <= j
                    display == CommonFractions[first].display
                IN  fqResult.chars =
                        IF whole > 0 THEN numberToString(whole) \o <<" ">> \o display
                        ELSE display

\* formatQuantity(1.125) has returned '1 1/8'.
C14_Witness ==
    /\ fqQuantity = Num(1125, 1000)
    /\ fqResult = Str(<<"1"," ","1","/","8">>)

\* The number of characters of s after its decimal point, 0 without a point.
DigitsAfterPoint(s) ==
    IF \E i \in 1..Len(s) : s[i] = "."
    THEN Len(s) - (CHOOSE i \in 1..Len(s) : s[i] = ".")
    ELSE 0

RECURSIVE PowerOfTen(_)
PowerOfTen(k) == IF k = 0 THEN 1 ELSE 10 * PowerOfTen(k - 1)

\* The number a string of digits with at most one point stands for.
DecimalValue(s) ==
    LET k == DigitsAfterPoint(s)
    IN  IF k = 0 THEN Num(parseInt(s), 1)
        ELSE Num(parseInt(SubSeq(s, 1, Len(s) - k - 1)) * PowerOfTen(k)
                    + parseInt(SubSeq(s, Len(s) - k + 1, Len(s))),
                 PowerOfTen(k))

IsDecimalText(s) ==
    /\ Len(s) > 0
    /\ \A i \in 1..Len(s) : isDigit(s[i]) \/ s[i] = "."
    /\ Cardinality({i \in 1..Len(s) : s[i] = "."}) <= 1
    /\ s[1] # "." /\ s[Len(s)] # "."

\* C15: the output never has more than two digits after a decimal point; a
\* decimal part below 0.001 gives the whole part as a plain integer; and
\* when no table entry is at 0.01 or nearer, the output is the quantity
\* rounded to two decimals with the trailing zeros (and a bare point) gone.
C15_AtMostTwoDecimals ==
    Formatted =>
        LET whole == WholePart(fqQuantity)
            dec == DecimalPart(fqQuantity)
            out == fqResult.chars
        IN  /\ DigitsAfterPoint(out) <= 2
            /\ 1000 * dec.n < dec.d => out = numberToString(whole)
            /\ (1000 * dec.n >= dec.d
                  /\ \A i \in 1..Len(CommonFractions) : ~NearOrAt(CommonFractions[i], dec)) =>
                  /\ IsDecimalText(out)
                  /\ DigitsAfterPoint(out) > 0 => out[Len(out)] # "0"
                  /\ IsNearestHundredth(DecimalValue(out), fqQuantity, Dec(1, 1))

\* formatQuantity(0.2) has returned '0.2'.
C15_Witness ==
    /\ fqQuantity = Num(2, 10)
    /\ fqResult = Str(<<"0",".","2">>)

\* C16: formatQuantity returns the empty string for null and for 0, and a
\* string that is not empty for every quantity above 0.
C16_SentinelOnlyForNothing ==
    fqResult # NotCalled =>
        IF fqQuantity = Null \/ fqQuantity.num = 0
        THEN fqResult = Str(<< >>)
        ELSE fqResult.chars # << >>

\* formatQuantity(0) has returned ''.
C16_Witness ==
    /\ fqQuantity = Num(0, 1)
    /\ fqResult = Str(<< >>)

-----------------------------------------------------------------------------
(* What the specification says of the whole display pipeline *)

PositiveFactor == rdRecipe # Null /\ IsNumber(scaleFactor) /\ scaleFactor.num > 0

NotNegative(v) == v = Null \/ (IsNumber(v) /\ v.num >= 0)

\* C13: with a non-negative quantity and a positive scale factor, the
\* scaled quantity is not negative, and neither is what the converter makes
\* of it, in either direction and for every unit.
C13_NeverNegative ==
    PositiveFactor =>
        \A i \in 1..Len(rdRecipe.ingredients) :
            LET item == rdRecipe.ingredients[i]
            IN  /\ NotNegative(scaledQuantity(item))
                /\ \A toMetric \in BOOLEAN, tie \in BOOLEAN :
                      NotNegative(convertUnits(scaledQuantity(item), item.unit,
                                               toMetric, tie).quantity)

\* 2 cups of a recipe for 4, shown at 6 portions in metric: 3 cups, 720 ml.
C13_Witness ==
    /\ Interactive /\ rdIsMetric
    /\ rdRecipe.servings = Str(<<"4">>) /\ rdPortions = 6
    /\ rdRecipe.ingredients[1].quantity = Num(2, 1)
    /\ rdRecipe.ingredients[1].unit = Str(U_cup)
    /\ scaledQuantity(rdRecipe.ingredients[1]) = Num(3, 1)
    /\ convertUnits(Num(3, 1), Str(U_cup), rdIsMetric, TRUE)
          = [quantity |-> Num(720, 1), unit |-> Str(U_ml)]

ImperialUnits == {U_cup, U_tsp, U_tbsp}

-----------------------------------------------------------------------------
(* Dark mode *)

\* The 'darkMode' item holds the text of the given truth value.
Saved(value) ==
    /\ lsDarkMode # Null
    /\ lsDarkMode.chars = (IF value THEN <<"t","r","u","e">> ELSE <<"f","a","l","s","e">>)

\* C21: when the page has just loaded, darkMode is the saved 'darkMode'
\* preference if there is one and the system colour scheme otherwise; once
\* the mount effect or the effect of a toggle has run, the 'darkMode' item
\* equals darkMode and the root element has the class 'dark' exactly when
\* darkMode is true.
C21_DarkModePersisted ==
    /\ appPhase = "mounting" =>
           IF lsDarkMode = Null THEN darkMode = prefersDark ELSE Saved(darkMode)
    /\ appPhase = "mounted" =>
           Saved(darkMode) /\ (("dark" \in classList) <=> darkMode)

\* C21 witness: dark mode is off against the system's preference, and the
\* effect has run.
C21_Witness ==
    /\ appPhase = "mounted"
    /\ prefersDark
    /\ ~darkMode
    /\ Saved(FALSE)

-----------------------------------------------------------------------------
(* Error boundary *)

\* What the boundary shows in the error state: the fallback prop when one is
\* given, and otherwise the default message with the text of the error
\* ('An unexpected error occurred' when the error has none).
ErrorView ==
    IF ebFallback.kind = "element"
    THEN ebRendered.kind = "fallback" /\ ebRendered.node = ebFallback
    ELSE /\ ebRendered.kind = "default"
         /\ ebRendered.text =
                IF ebState.error.kind = "error" /\ ebState.error.message.chars # << >>
                THEN ebState.error.message.chars
                ELSE S_unexpected

\* C23: in the error state every render of the boundary returns the
\* fallback and not the children, and only 'Try again' leaves the error
\* state.
C23_ErrorStateSticky ==
    /\ [](ebState.hasError => ErrorView)
    /\ [][(ebState.hasError /\ ~ebState'.hasError) => TryAgain]_vars

\* C23 witness: a descendant has thrown, and the boundary has rendered
\* again since (the mobile menu was opened on the error page).
C23_Witness ==
    /\ ebState.hasError
    /\ ebState.error.kind = "error"
    /\ ebRendered.kind = "default"
    /\ mobileMenuOpen

-----------------------------------------------------------------------------
(* The quantity field of an ingredient *)

\* C22: an ingredient whose scaled and converted quantity is null or 0 is
\* shown without number and without unit, as 'to taste' when it has no
\* notes and with an empty quantity field when it has notes; an ingredient
\* whose scaled and converted quantity is positive is shown as the formatted
\* quantity, followed by a space and the unit when the unit is not empty.
C22_QuantityField ==
    rdRecipe # Null =>
        \A i \in 1..Len(rdRecipe.ingredients), tie \in BOOLEAN, ties \in Ties :
            LET item == rdRecipe.ingredients[i]
                converted == convertUnits(scaledQuantity(item), item.unit, rdIsMetric, tie)
                amount == converted.quantity
                shown == quantityDisplay(item, tie, ties)
                noNotes == item.notes = Null \/ item.notes.chars = << >>
            IN  /\ (amount = Null \/ (IsNumber(amount) /\ amount.num = 0)) =>
                       shown = (IF noNotes THEN <<"t","o"," ","t","a","s","t","e">>
                                ELSE << >>)
                /\ (IsNumber(amount) /\ amount.num > 0) =>
                       shown = formatQuantityAsFraction(amount, ties).chars
                                   \o (IF converted.unit # Null /\ converted.unit.chars # << >>
                                       THEN <<" ">> \o converted.unit.chars
                                       ELSE << >>)

\* C22 witness: an ingredient with quantity 0, a unit and no notes, in a
\* recipe whose portions the user has changed.
C22_Witness ==
    /\ rdRecipe # Null
    /\ ~rdEffectPending
    /\ rdPortions # originalServings
    /\ rdRecipe.ingredients[1].quantity = Num(0, 1)
    /\ rdRecipe.ingredients[1].unit = Str(<<"c","u","p">>)
    /\ rdRecipe.ingredients[1].notes = Null

-----------------------------------------------------------------------------
(* What a successful save or image operation leaves alone *)

\* C29: a successful save of the name, upload of an image or fetch of an
\* image leaves the portions the user has selected, the metric toggle and
\* the completed steps as they are.
C29_SavesKeepSelections ==
    [][(SaveNameSucceeds \/ ImageUploadSucceeds \/ FetchImageSucceeds) =>
           (/\ rdPortions' = rdPortions
            /\ rdIsMetric' = rdIsMetric
            /\ rdCompletedSteps' = rdCompletedSteps)]_vars

-----------------------------------------------------------------------------
(* The grocery list *)

\* C24: when the response to the toggle of an item is processed, every
\* other item of the local list keeps the state it has, so that of two
\* toggles of different items in flight together both results are in the
\* list once both responses have been processed.
C24_NoToggleLost ==
    [][\A n \in 1..Len(glRequests) :
           ToggleItemSucceeds(n) =>
               \A i \in 1..Len(glGroceryList.items) :
                   glGroceryList.items[i].id # glRequests[n].itemId =>
                       glGroceryList'.items[i] = glGroceryList.items[i]]_vars

\* C25: every item of the loaded list is rendered, in one category section,
\* so that as many items are rendered as the header counts.
C25_EveryItemRendered ==
    ListShown =>
        /\ Len(renderedItems(glGroceryList)) = Len(glGroceryList.items)
        /\ \A i \in 1..Len(glGroceryList.items) :
               Cardinality({n \in 1..Len(renderedItems(glGroceryList)) :
                   renderedItems(glGroceryList)[n] = glGroceryList.items[i]}) = 1

\* C30: the progress is a whole number from 0 to 100, is 0 for a list
\* without items, is 100 only when every item is checked and is 0 only when
\* no item is checked.
C30_ProgressEnds ==
    pgResult # NotCalled =>
        /\ pgResult.den = 1
        /\ pgResult.num \in 0..100
        /\ pgLength = 0 => pgResult.num = 0
        /\ pgResult.num = 100 => pgChecked = pgLength
        /\ pgResult.num = 0 => pgChecked = 0

-----------------------------------------------------------------------------
(* Deleting a recipe in the gallery *)

\* C26: a delete request for a recipe is issued only by a click on the
\* delete button of that recipe while it is the one pending confirmation;
\* a click on a recipe that is not pending confirmation only makes it the
\* one pending, and issues no request.
C26_DeleteOnlyConfirmed ==
    /\ [][rgDeletes' # rgDeletes /\ Len(rgDeletes') > Len(rgDeletes) =>
              \E r \in RecipeIds :
                  /\ ClickDelete(r)
                  /\ deleteConfirm # Null
                  /\ deleteConfirm.num = r
                  /\ rgDeletes' = rgDeletes \o <<r>>]_vars
    /\ [][\A r \in RecipeIds :
              (ClickDelete(r) /\ (deleteConfirm = Null \/ deleteConfirm.num # r)) =>
                  /\ rgDeletes' = rgDeletes
                  /\ deleteConfirm' # Null
                  /\ deleteConfirm'.num = r]_vars

\* C26 witness: a delete request for the recipe pending confirmation is in
\* flight, after a click on another recipe had armed that one first.
C26_Witness ==
    /\ rgDeletes # << >>
    /\ deleteConfirm # Null
    /\ deleteConfirm.num = rgDeletes[1]
    /\ Len(rgTimers) >= 2

\* C27: a confirmation is cleared by a timeout only when 3 seconds have
\* passed since the click that armed it, that is, when the timeout that
\* click started (the newest one) has run out; the timeout of an earlier
\* click does not clear it.
C27_ArmedForThreeSeconds ==
    [][(deleteConfirm # Null /\ TimerFires) => rgTimers[Len(rgTimers)] = 0]_vars

\* C28: 'Moved to trash' has been shown for a recipe only if a delete
\* request for it has succeeded; a failed request leaves the cached list
\* as it is and shows the failure notice, and no 'Moved to trash' has been
\* shown for its recipe.
C28_MovedOnlyAfterSuccess ==
    /\ [](\A r \in RecipeIds : MovedToTrash(r) \in rgAlerts => r \notin rgServer)
    /\ [][\A n \in 1..Len(rgDeletes) :
              DeleteFails(n) =>
                  /\ rgRecipes' = rgRecipes
                  /\ FailedToDelete \in rgAlerts'
                  /\ (rgDeletes[n] \in rgServer =>
                          MovedToTrash(rgDeletes[n]) \notin rgAlerts')]_vars

====
